---- MODULE Spec2Model ----
(***************************************************************************)
(* Identity & Session Core of the auth-service.                            *)
(*                                                                         *)
(*  - the refresh rotation engine (identity/service.ts refreshWithToken,   *)
(*    identity/repository.ts) running against auth.refresh_tokens under    *)
(*    PostgreSQL READ COMMITTED transactions (one per request);            *)
(*  - the tenant transaction controller (plugins/tenant-db-context.ts):    *)
(*    preHandler BEGIN + binding, finalizeTx on onResponse / onError;      *)
(*  - the identity routes /login, /refresh, /logout that run inside it.    *)
(*                                                                         *)
(* Every await of the source is a step boundary: other requests may run    *)
(* between two steps of one request.                                       *)
(***************************************************************************)
EXTENDS Integers, FiniteSets, Sequences, TLC

\* ------------------------------------------------------------------------
\* Bounds
\* ------------------------------------------------------------------------
\* number of HTTP requests in one behaviour
MaxReqs == 4
\* number of HTTP requests in one behaviour in which faults are injected
MaxFaultyReqs == 3
\* number of requests being served at the same time
MaxInFlight == 2
\* number of infrastructure faults (failed statement / cache call) injected
MaxFaults == 1
\* finalizeTx invocations per request that are counted (observation)
MaxHookCalls == 3

\* libs/db.ts: new Pool({ max: 10 })
PoolMax == 10

Reqs == 1..MaxReqs
\* every request inserts at most one refresh-token row
TokenIds == 1..MaxReqs

\* ------------------------------------------------------------------------
\* Values
\* ------------------------------------------------------------------------
NoRow == [absent |-> TRUE]
Deleted == [deleted |-> TRUE]
\* a secret no row was ever issued for
UnknownSecret == 0

\* libs/crypto.ts hashOpaqueToken: only the digest of the secret is stored
hashOpaqueToken(secret) == <<"sha256", secret>>

VARIABLES
  tokens,       \* committed rows of auth.refresh_tokens, by row id
  nextId,       \* next generated uuid (row id / secret / family id)
  expiredUpTo,  \* rows with id <= expiredUpTo have expires_at <= now()
  txWrites,     \* per request: uncommitted row versions of its transaction
  txStatus,     \* per request: state of its database transaction
  txState,      \* per request: request._txState (+ request.db)
  finPending,   \* per request: finalizeTx suspended at its COMMIT/ROLLBACK
  checkedOut,   \* requests that hold a pool connection
  req,          \* per request: route, inputs, position, handler locals
  stats,        \* per request: statements issued / releases (observation)
  concurrent,   \* pairs of requests whose lifetimes overlapped (observation)
  known,        \* refresh secrets delivered to clients in responses
  issued,       \* access tokens delivered to clients (jti, sid)
  blacklist,    \* revoked jtis in the cache
  reqsLeft,     \* requests still to arrive
  faultsLeft    \* infrastructure faults still to be injected

coreVars == <<tokens, nextId, expiredUpTo, txWrites, txStatus, txState, finPending,
              checkedOut, req, stats, concurrent, known, issued, blacklist,
              reqsLeft, faultsLeft>>

dbVars == <<tokens, nextId, txWrites, txStatus>>

\* ------------------------------------------------------------------------
\* State of the cache primitives (libs/redis.ts)
\* ------------------------------------------------------------------------
\* number of callers of the short lock on one (tenant, scope, resource)
MaxCallers == 3
\* number of acquireShortLock calls in one behaviour
MaxLockOps == 4

Callers == 1..MaxCallers
\* ownership tokens: randomUUID() of each acquireShortLock call
LockTokens == 1..MaxLockOps
\* redis.get of an absent key
Nil == 0

VARIABLES
  lockVal,      \* value stored under the lock key (Nil: key absent)
  lockPc,       \* per caller: position around its critical section
  lockTok,      \* per caller: token of its RedisLockHandle
  nextLockTok,  \* next ownership token
  lockHolds,    \* tokens acquired and neither released nor past their TTL
  lockStolen    \* tokens whose key a caller other than the owner deleted

lockVars == <<lockVal, lockPc, lockTok, nextLockTok, lockHolds, lockStolen>>

LockInit ==
  /\ lockVal = Nil
  /\ lockPc = [c \in Callers |-> "idle"]
  /\ lockTok = [c \in Callers |-> Nil]
  /\ nextLockTok = 1
  /\ lockHolds = {}
  /\ lockStolen = {}

\* ------------------------------------------------------------------------
\* State of the idempotent endpoints (libs/idempotency.ts, libs/outbox.ts,
\* POST /auth/password/forgot), for one (tenant, endpoint, idempotency key)
\* ------------------------------------------------------------------------
\* number of requests that carry the idempotency key
MaxIdemReqs == 3
\* clock ticks in one behaviour
MaxClock == 3
\* failed statements injected into these requests
MaxIdemFaults == 1
\* IDEMPOTENCY_TTL_SEC (24h) in clock ticks
TtlTicks == 2

IReqs == 1..MaxIdemReqs

VARIABLES
  clock,        \* wall clock
  idemCache,    \* cache entry of the key: NoRow or [status, body, expires]
  idemRow,      \* committed row of auth.idempotency_keys: NoRow or record
  outboxRows,   \* committed rows of auth.outbox_events for the key
  resetRows,    \* committed password-reset token rows
  streamLen,    \* events appended to the auth-events stream
  fq,           \* per request: position, transaction, response
  idemFaults    \* failed statements still to be injected

idemVars == <<clock, idemCache, idemRow, outboxRows, resetRows, streamLen,
              fq, idemFaults>>

NoFq ==
  [pc |-> "idle", now |-> 0, wIdem |-> NoRow, wOutbox |-> FALSE, wReset |-> 0,
   resp |-> NoRow, replay |-> "none", backed |-> TRUE, shrink |-> FALSE,
   faulted |-> FALSE]

IdemInit ==
  /\ clock = 0
  /\ idemCache = NoRow
  /\ idemRow = NoRow
  /\ outboxRows = 0
  /\ resetRows = 0
  /\ streamLen = 0
  /\ fq = [r \in IReqs |-> NoFq]
  /\ idemFaults = MaxIdemFaults

\* ------------------------------------------------------------------------
\* State of access-token revocation (plugins/auth.ts, POST /logout,
\* libs/redis.ts blacklistAdd / blacklistHas, libs/jwt.ts)
\* ------------------------------------------------------------------------
\* access tokens in one behaviour
MaxJtis == 2
\* clock ticks in one behaviour
MaxRvClock == 5
\* ACCESS_TTL_SEC in clock ticks
AccessTtlTicks == 2
\* JWT_CLOCK_SKEW_SEC (default 60) in clock ticks
SkewTicks == 1

Jtis == 1..MaxJtis

VARIABLES
  rvClock,      \* wall clock
  rvExp,        \* per jti: exp claim of the token (0: not issued)
  rvBlUntil,    \* per jti: when its blacklist key expires (0: no key)
  rvLoggedOut,  \* per jti: a logout presenting the token has completed
  rvLast        \* per jti: answer to the latest request since the logout

rvVars == <<rvClock, rvExp, rvBlUntil, rvLoggedOut, rvLast>>

RvInit ==
  /\ rvClock = 0
  /\ rvExp = [j \in Jtis |-> 0]
  /\ rvBlUntil = [j \in Jtis |-> 0]
  /\ rvLoggedOut = [j \in Jtis |-> FALSE]
  /\ rvLast = [j \in Jtis |-> "none"]

\* ------------------------------------------------------------------------
\* State of the guard pipeline (app.ts registerAuthModules and the five
\* preHandler plugins), for the request being served
\* ------------------------------------------------------------------------
\* tenants that occur in headers and token claims
MaxTenants == 2
\* requests served one after the other
MaxGuardReqs == 2

Tenants == 1..MaxTenants
NoValue == [kind |-> "none"]

VARIABLES
  g,            \* the request: route config, inputs, request.* fields, position
  gServed       \* requests served so far

guardVars == <<g, gServed>>

NoG ==
  [pc |-> "idle", cfg |-> NoValue, header |-> NoValue, token |-> NoValue,
   requestedTenantId |-> NoValue, user |-> NoValue, tenantId |-> NoValue,
   db |-> NoValue, order |-> <<>>, reply |-> 0, code |-> "none"]

GuardInit ==
  /\ g = NoG
  /\ gServed = 0

\* ------------------------------------------------------------------------
\* State of one rate-counter key (libs/redis.ts incrLimit, plugins/rate-limit.ts)
\* ------------------------------------------------------------------------
\* requests that hit the same (route, ip) bucket
MaxRateCallers == 3
\* clock ticks (seconds) that pass
MaxRateClock == 3
\* cache commands that fail
MaxRateFaults == 1
\* RATE_LIMIT_WINDOW, in ticks
RateWindow == 2
\* RATE_LIMIT_MAX
RateMax == 1

RateCallers == 1..MaxRateCallers
\* replies of the TTL command for a key without expiry / a missing key
TtlNoExpiry == -1
TtlNoKey == -2

VARIABLES
  rateVal,        \* value of the counter key; 0: the key does not exist
  rateExp,        \* remaining lifetime of the key, TtlNoExpiry or TtlNoKey
  rateClock,      \* ticks passed
  rc,             \* per request: position in onRequest / incrLimit and locals
  rateFaultsLeft  \* cache failures still to happen

rateVars == <<rateVal, rateExp, rateClock, rc, rateFaultsLeft>>

NoRc ==
  [pc |-> "incr", count |-> 0, ttl |-> 0, blocked |-> FALSE, threw |-> FALSE,
   status |-> 0]

RateInit ==
  /\ rateVal = 0
  /\ rateExp = TtlNoKey
  /\ rateClock = 0
  /\ rc = [c \in RateCallers |-> NoRc]
  /\ rateFaultsLeft = MaxRateFaults


\* ------------------------------------------------------------------------
\* State of the connection pool and of the requests that use it
\* (libs/db.ts pool, plugins/tenant-db-context.ts)
\* ------------------------------------------------------------------------
\* connections of the pool
MaxConns == 2
\* requests that need a transaction
MaxPoolReqs == 3
\* statements that fail
MaxPoolFaults == 1
\* statements a handler issues
MaxStmts == 1

Conns == 1..MaxConns
PReqs == 1..MaxPoolReqs

VARIABLES
  poolIdle,       \* connections the pool holds idle
  poolOwner,      \* per connection: the request it is checked out to, or 0
  pr,             \* per request: position, request._txState, request.db, locals
  poolFaultsLeft  \* statement failures still to happen

poolVars == <<poolIdle, poolOwner, pr, poolFaultsLeft>>

NoPr ==
  [pc |-> "preHandler", fin |-> "none", mode |-> "none", next |-> "none",
   client |-> 0, db |-> 0, inTx |-> FALSE, finalized |-> FALSE, local |-> 0,
   used |-> {}, late |-> FALSE, foreign |-> FALSE, stmts |-> 0]

PoolInit ==
  /\ poolIdle = Conns
  /\ poolOwner = [k \in Conns |-> 0]
  /\ pr = [r \in PReqs |-> NoPr]
  /\ poolFaultsLeft = MaxPoolFaults


\* ------------------------------------------------------------------------
\* State of password login (identity/service.ts loginWithEmailPassword,
\* identity/routes.ts POST /login, libs/redis.ts login soft-lock)
\* ------------------------------------------------------------------------
\* login attempts, one after the other
MaxLoginReqs == 2
\* email addresses / passwords that occur
MaxEmails == 2
MaxPasswords == 2
\* failing statements
MaxLoginFaults == 1
\* LOGIN_SOFT_LOCK_MAX_ATTEMPTS
SoftLockMax == 1

Emails == 1..MaxEmails
\* the plaintext behind DUMMY_PASSWORD_HASH
DummyPlain == 0
Passwords == 0..MaxPasswords

VARIABLES
  la,              \* the login attempt being served
  lFailures,       \* per email (and ip): the soft-lock counter in the cache
  lLog,            \* what each finished attempt did and answered
  lFaultsLeft      \* statement failures still to happen

loginVars == <<la, lFailures, lLog, lFaultsLeft>>

NoLa ==
  [pc |-> "idle", email |-> 0, tenantHdr |-> FALSE, cand |-> NoValue, password |-> 0,
   verifyCalls |-> 0, locked |-> FALSE, resp |-> NoValue,
   session |-> FALSE, access |-> FALSE, refresh |-> FALSE]

LoginInit ==
  /\ la = NoLa
  /\ lFailures = [e \in Emails |-> 0]
  /\ lLog = <<>>
  /\ lFaultsLeft = MaxLoginFaults


\* ------------------------------------------------------------------------
\* State of access-token issuance and verification (libs/jwt.ts)
\* ------------------------------------------------------------------------
\* tokens signed or presented, one after the other
MaxJwtOps == 2

VARIABLES
  jw,      \* the token at hand: how it came about, its claims, the verdict
  jwOps    \* tokens handled so far

jwtVars == <<jw, jwOps>>

NoJw ==
  [pc |-> "idle", issued |-> FALSE, supplied |-> NoValue, token |-> NoValue,
   prev |-> FALSE, result |-> NoValue]

JwtInit ==
  /\ jw = NoJw
  /\ jwOps = 0


\* ------------------------------------------------------------------------
\* State of session issuance (identity/service.ts loginWithEmailPassword,
\* magic-link/service.ts consumeMagicLink)
\* ------------------------------------------------------------------------
\* requests that issue a session (login or magic-link consumption)
MaxIssueReqs == 3
\* magic links requested
MaxLinks == 1
\* failed statements injected into these requests
MaxIssueFaults == 1

UReqs == 1..MaxIssueReqs
Links == 1..MaxLinks

VARIABLES
  sessRows,     \* committed rows of auth.sessions (their ids)
  rtRows,       \* committed rows of auth.refresh_tokens
  linkRows,     \* committed magic-link rows of auth.tokens (their ids)
  iu,           \* per request: position, locals, transaction, response
  nextUuid,     \* next value of randomUUID() / gen_random_uuid()
  issueFaults   \* failed statements still to be injected

issueVars == <<sessRows, rtRows, linkRows, iu, nextUuid, issueFaults>>

NoIu ==
  [kind |-> "none", pc |-> "idle", link |-> 0, reason |-> "none", sessionId |-> 0,
   secret |-> 0, sid |-> 0, wSess |-> {}, wRt |-> {}, wLink |-> {},
   tx |-> "none", outcome |-> "none"]

IssueInit ==
  /\ sessRows = {}
  /\ rtRows = {}
  /\ linkRows = {}
  /\ iu = [r \in UReqs |-> NoIu]
  /\ nextUuid = 1
  /\ issueFaults = MaxIssueFaults


\* ------------------------------------------------------------------------
\* State of the top-level error handler (app.ts setErrorHandler)
\* ------------------------------------------------------------------------
\* errors that reach the handler in one behaviour
MaxErrors == 2

VARIABLES
  eh,      \* the error at hand and the response body sent for it
  ehSeen   \* errors handled so far

errVars == <<eh, ehSeen>>

NoEh == [pc |-> "idle", err |-> NoValue, body |-> NoValue]

ErrInit ==
  /\ eh = NoEh
  /\ ehSeen = 0


\* ------------------------------------------------------------------------
\* State of the auth preHandler and of the blacklist it consults
\* (plugins/auth.ts, libs/redis.ts blacklistAdd / blacklistHas)
\* ------------------------------------------------------------------------
\* requests served one after the other
MaxAuthReqs == 3

VARIABLES
  au,           \* the request: route flag, Authorization, position, reply
  auServed,     \* requests served so far
  auBl,         \* jtis whose blacklist key exists
  auCacheUp     \* the cache completes commands

authVars == <<au, auServed, auBl, auCacheUp>>

NoAu ==
  [pc |-> "idle", auth |-> FALSE, authorization |-> "absent", jti |-> 0,
   lookup |-> "none", user |-> 0, reply |-> 0, code |-> "none"]

AuthInit ==
  /\ au = NoAu
  /\ auServed = 0
  /\ auBl = {}
  /\ auCacheUp = TRUE

extVars == <<lockVars, idemVars, rvVars, guardVars, rateVars, poolVars, loginVars, jwtVars, issueVars, errVars, authVars>>
ExtInit == LockInit /\ IdemInit /\ RvInit /\ GuardInit /\ RateInit /\ PoolInit /\ LoginInit /\ JwtInit /\ IssueInit /\ ErrInit /\ AuthInit
\* everything but the state of one subsystem
notLock == <<coreVars, idemVars, rvVars, guardVars, rateVars, poolVars, loginVars, jwtVars, issueVars, errVars, authVars>>
notIdem == <<coreVars, lockVars, rvVars, guardVars, rateVars, poolVars, loginVars, jwtVars, issueVars, errVars, authVars>>
notRv == <<coreVars, lockVars, idemVars, guardVars, rateVars, poolVars, loginVars, jwtVars, issueVars, errVars, authVars>>
notGuard == <<coreVars, lockVars, idemVars, rvVars, rateVars, poolVars, loginVars, jwtVars, issueVars, errVars, authVars>>
notRate == <<coreVars, lockVars, idemVars, rvVars, guardVars, poolVars, loginVars, jwtVars, issueVars, errVars, authVars>>
notPool == <<coreVars, lockVars, idemVars, rvVars, guardVars, rateVars, loginVars, jwtVars, issueVars, errVars, authVars>>
notLogin == <<coreVars, lockVars, idemVars, rvVars, guardVars, rateVars, poolVars, jwtVars, issueVars, errVars, authVars>>
notJwt == <<coreVars, lockVars, idemVars, rvVars, guardVars, rateVars, poolVars, loginVars, issueVars, errVars, authVars>>
notIssue == <<coreVars, lockVars, idemVars, rvVars, guardVars, rateVars, poolVars, loginVars, jwtVars, errVars, authVars>>
notErr == <<coreVars, lockVars, idemVars, rvVars, guardVars, rateVars, poolVars, loginVars, jwtVars, issueVars, authVars>>
notAuth == <<coreVars, lockVars, idemVars, rvVars, guardVars, rateVars, poolVars, loginVars, jwtVars, issueVars, errVars>>

vars == <<coreVars, extVars>>

\* ------------------------------------------------------------------------
\* auth.refresh_tokens under READ COMMITTED
\* ------------------------------------------------------------------------
TxOpen(t) == txStatus[t] \in {"active", "aborted"}

\* the row version a statement of transaction r reads: its own uncommitted
\* write if any, else the committed version
View(r, id) == IF id \in DOMAIN txWrites[r] THEN txWrites[r][id] ELSE tokens[id]

IsRow(v) == v # NoRow /\ v # Deleted

\* a row some other open transaction has written holds that transaction's
\* row lock until it commits or rolls back
\* faulty variant: writers do not wait for each other's row locks
LockedByNobody(r, id) == FALSE
LockedByOther(r, id) ==
  \E t \in Reqs \ {r} : TxOpen(t) /\ id \in DOMAIN txWrites[t]

\* transaction r writes version v of row id
WriteRow(r, id, v) ==
  [txWrites EXCEPT ![r] = [i \in (DOMAIN txWrites[r]) \cup {id} |->
                              IF i = id THEN v ELSE txWrites[r][i]]]

\* a live token: neither revoked nor replaced
IsLive(v) == IsRow(v) /\ ~v.revoked /\ v.replaced_by = 0

\* SELECT ... WHERE token_hash = $1 LIMIT 1, as seen by transaction r
findRefreshTokenByHash(r, tokenHash) ==
  LET hits == {id \in TokenIds : IsRow(View(r, id)) /\ View(r, id).token_hash = tokenHash}
  IN IF hits = {} THEN 0 ELSE CHOOSE id \in hits : TRUE

\* INSERT INTO auth.refresh_tokens ... RETURNING: the new row
NewRow(secret, familyId) ==
  [token_hash |-> hashOpaqueToken(secret), family_id |-> familyId,
   replaced_by |-> 0, revoked |-> FALSE]

\* UPDATE ... SET revoked_at = now(), replaced_by = $2
\*   WHERE id = $1 AND revoked_at IS NULL
\* evaluated on the latest version of the row once its lock is free
\* faulty variant: WHERE id = $1 without AND revoked_at IS NULL
MarkMatchesUnconditional(r, tokenId) == IsRow(View(r, tokenId))
MarkMatches(r, tokenId) == IsRow(View(r, tokenId)) /\ ~View(r, tokenId).revoked
\* faulty variant: the presented row is revoked but not linked to its successor
MarkedRowUnlinked(v, replacedById) == [v EXCEPT !.revoked = TRUE]
MarkedRow(v, replacedById) == [v EXCEPT !.revoked = TRUE, !.replaced_by = replacedById]

\* UPDATE ... SET revoked_at = now() WHERE family_id = $1 AND revoked_at IS NULL
\* candidate rows of the statement's snapshot
\* faulty variant: the family revocation selects no row
FamilyCandidatesNone(r, familyId) == {}
FamilyCandidates(r, familyId) ==
  {id \in TokenIds : /\ IsRow(View(r, id))
                     /\ View(r, id).family_id = familyId
                     /\ ~View(r, id).revoked}
\* the candidates that still match when re-read after their locks were taken
StillMatching(r, familyId, cand) ==
  {id \in cand : /\ IsRow(View(r, id))
                 /\ View(r, id).family_id = familyId
                 /\ ~View(r, id).revoked}
RevokedRow(v) == [v EXCEPT !.revoked = TRUE]
RevokeRows(r, ids) ==
  [txWrites EXCEPT ![r] = [i \in (DOMAIN txWrites[r]) \cup ids |->
                              IF i \in ids THEN RevokedRow(View(r, i)) ELSE txWrites[r][i]]]

\* DELETE FROM auth.refresh_tokens WHERE id = $1
\* faulty variant: the lost rotation leaves its successor row in place
deleteNothing(r, tokenId) == txWrites
deleteRefreshTokenById(r, tokenId) == WriteRow(r, tokenId, Deleted)

\* COMMIT: the transaction's row versions become the committed ones
Committed(r) ==
  [id \in TokenIds |->
     IF id \in DOMAIN txWrites[r]
       THEN (IF txWrites[r][id] = Deleted THEN NoRow ELSE txWrites[r][id])
       ELSE tokens[id]]

\* ------------------------------------------------------------------------
\* Requests
\* ------------------------------------------------------------------------
NoReq ==
  [kind |-> "none", pc |-> "idle", secret |-> 0, cred |-> "none", jti |-> 0, sid |-> 0,
   storedId |-> 0, familyId |-> 0, cand |-> {}, newTok |-> 0, rotated |-> FALSE,
   live |-> FALSE, sawExpired |-> FALSE, ran |-> FALSE,
   outcome |-> "none", threw |-> FALSE, faulted |-> FALSE]

NoStats ==
  [acquired |-> FALSE, began |-> FALSE, commits |-> 0, rollbacks |-> 0,
   releases |-> 0, calls |-> 0, effect |-> FALSE]

\* ensureTxState: { inTx: false, finalized: false }, no client, no request.db
NewTxState == [client |-> FALSE, db |-> FALSE, inTx |-> FALSE, finalized |-> FALSE]

InFlight(r) == req[r].pc \notin {"idle", "done"}

Init ==
  /\ tokens = [id \in TokenIds |-> NoRow]
  /\ nextId = 1
  /\ expiredUpTo = 0
  /\ txWrites = [r \in Reqs |-> <<>>]
  /\ txStatus = [r \in Reqs |-> "none"]
  /\ txState = [r \in Reqs |-> NewTxState]
  /\ finPending = [r \in Reqs |-> "none"]
  /\ checkedOut = {}
  /\ req = [r \in Reqs |-> NoReq]
  /\ stats = [r \in Reqs |-> NoStats]
  /\ concurrent = {}
  /\ known = {}
  /\ issued = {}
  /\ blacklist = {}
  /\ reqsLeft = MaxReqs
  /\ faultsLeft = 0
  /\ ExtInit

\* the same, in an environment where statements and cache calls may fail
InitFaults ==
  /\ tokens = [id \in TokenIds |-> NoRow]
  /\ nextId = 1
  /\ expiredUpTo = 0
  /\ txWrites = [r \in Reqs |-> <<>>]
  /\ txStatus = [r \in Reqs |-> "none"]
  /\ txState = [r \in Reqs |-> NewTxState]
  /\ finPending = [r \in Reqs |-> "none"]
  /\ checkedOut = {}
  /\ req = [r \in Reqs |-> NoReq]
  /\ stats = [r \in Reqs |-> NoStats]
  /\ concurrent = {}
  /\ known = {}
  /\ issued = {}
  /\ blacklist = {}
  /\ reqsLeft = MaxFaultyReqs
  /\ faultsLeft = MaxFaults
  /\ ExtInit

\* an infrastructure fault may be injected
CanFault == faultsLeft > 0

\* the committed row of secret s is live (observation at arrival)
LiveSecret(s) ==
  \E id \in TokenIds : /\ IsLive(tokens[id])
                       /\ tokens[id].token_hash = hashOpaqueToken(s)

\* a request arrives; requests are numbered in arrival order
Arrive(r, fields) ==
  /\ req[r].pc = "idle"
  /\ \A q \in Reqs : q < r => req[q].pc # "idle"
  /\ Cardinality({q \in Reqs : InFlight(q)}) < MaxInFlight
  /\ reqsLeft > 0
  /\ reqsLeft' = reqsLeft - 1
  /\ req' = [req EXCEPT ![r] = fields]
  /\ concurrent' = concurrent \cup {<<q, r>> : q \in {x \in Reqs : InFlight(x)}}
  /\ UNCHANGED <<tokens, nextId, expiredUpTo, txWrites, txStatus, txState, finPending,
                 checkedOut, stats, known, issued, blacklist, faultsLeft>>

\* POST /auth/login with an X-Tenant-Id header
StartLogin(r) ==
  \E c \in {"good", "bad"} :
    Arrive(r, [NoReq EXCEPT !.kind = "login", !.pc = "connect", !.cred = c])

\* POST /auth/refresh presenting a secret the client holds, or a made-up one
StartRefresh(r) ==
  \E s \in known \cup {UnknownSecret} :
    Arrive(r, [NoReq EXCEPT !.kind = "refresh", !.pc = "connect", !.secret = s,
                            !.live = LiveSecret(s)])

\* POST /auth/logout with a verified access token
StartLogout(r) ==
  \E a \in issued :
    Arrive(r, [NoReq EXCEPT !.kind = "logout", !.pc = "connect", !.jti = a.jti, !.sid = a.sid])

\* ------------------------------------------------------------------------
\* plugins/tenant-db-context.ts
\* ------------------------------------------------------------------------
\* if (s.finalized) return; ... if (!client) return;
\* faulty variant: finalizeTx without its two guards
EarlyReturnNever(s) == FALSE
EarlyReturn(s) == s.finalized \/ ~s.client

\* client.release() in the finally block: the connection returns to the pool
\* faulty variant: the finally block does not release the client
ReleaseNothing(pool, r) == pool
Release(pool, r) == pool \ {r}

\* the mode each hook passes to finalizeTx
\* faulty variants: the hooks pass the other mode
OnResponseModeRollback == "rollback"
OnErrorModeCommit == "commit"
OnResponseMode == "commit"
OnErrorMode == "rollback"

\* finalizeTx up to its first await.  nextPc: where the caller continues;
\* waitPc: where it waits for the COMMIT / ROLLBACK statement.
FinalizeTxStart(r, mode, waitPc, nextPc) ==
  LET s == txState[r]
      early == EarlyReturn(s)
      issue == ~early /\ s.inTx
      free == ~early /\ ~s.inTx
  IN
  /\ UNCHANGED <<tokens, nextId, expiredUpTo, txWrites, txStatus, concurrent, known,
                 issued, blacklist, reqsLeft, faultsLeft>>
  /\ stats' = [stats EXCEPT
       ![r].calls = IF @ < MaxHookCalls THEN @ + 1 ELSE @,
       ![r].commits = @ + (IF issue /\ mode = "commit" THEN 1 ELSE 0),
       ![r].rollbacks = @ + (IF issue /\ mode = "rollback" THEN 1 ELSE 0),
       ![r].releases = @ + (IF free THEN 1 ELSE 0)]
  /\ IF early
       THEN /\ txState' = [txState EXCEPT ![r].finalized = TRUE]
            /\ req' = [req EXCEPT ![r].pc = nextPc]
            /\ UNCHANGED <<finPending, checkedOut>>
     ELSE IF s.inTx
       THEN /\ txState' = [txState EXCEPT ![r].finalized = TRUE, ![r].client = FALSE]
            /\ finPending' = [finPending EXCEPT ![r] = mode]
            /\ req' = [req EXCEPT ![r].pc = waitPc]
            /\ UNCHANGED checkedOut
     ELSE   /\ txState' = [txState EXCEPT ![r] =
                 [client |-> FALSE, db |-> FALSE, inTx |-> FALSE, finalized |-> TRUE]]
            /\ checkedOut' = Release(checkedOut, r)
            /\ req' = [req EXCEPT ![r].pc = nextPc]
            /\ UNCHANGED finPending

\* the rows a COMMIT of r changes
CommitChanges(r) == Committed(r) # tokens

\* finalizeTx after its await: the statement has succeeded (failed = FALSE) or
\* thrown (logged only); the finally block releases the client.
FinalizeTxEnd(r, failed, nextPc) ==
  /\ finPending[r] # "none"
  /\ failed => CanFault
  /\ faultsLeft' = faultsLeft - (IF failed THEN 1 ELSE 0)
  /\ IF finPending[r] = "commit" /\ ~failed /\ txStatus[r] = "active"
       THEN /\ tokens' = Committed(r)
            /\ txStatus' = [txStatus EXCEPT ![r] = "committed"]
            /\ stats' = [stats EXCEPT ![r].releases = @ + 1, ![r].effect = CommitChanges(r)]
       ELSE /\ tokens' = tokens
            /\ txStatus' = [txStatus EXCEPT ![r] = "rolledback"]
            /\ stats' = [stats EXCEPT ![r].releases = @ + 1]
  /\ txWrites' = [txWrites EXCEPT ![r] = <<>>]
  /\ finPending' = [finPending EXCEPT ![r] = "none"]
  /\ txState' = [txState EXCEPT ![r].db = FALSE, ![r].inTx = FALSE]
  /\ checkedOut' = Release(checkedOut, r)
  /\ req' = [req EXCEPT ![r].pc = nextPc, ![r].faulted = @ \/ failed]
  /\ UNCHANGED <<nextId, expiredUpTo, concurrent, known, issued, blacklist, reqsLeft>>

\* preHandler: const client = await pool.connect(); s.client = client; request.db = client
Connect(r) ==
  /\ req[r].pc = "connect"
  /\ Cardinality(checkedOut) < PoolMax
  /\ checkedOut' = checkedOut \cup {r}
  /\ txState' = [txState EXCEPT ![r].client = TRUE, ![r].db = TRUE]
  /\ stats' = [stats EXCEPT ![r].acquired = TRUE]
  /\ req' = [req EXCEPT ![r].pc = "begin"]
  /\ UNCHANGED <<tokens, nextId, expiredUpTo, txWrites, txStatus, finPending,
                 concurrent, known, issued, blacklist,
                 reqsLeft, faultsLeft>>

\* pool.connect() rejects (connectionTimeoutMillis): the hook throws before a
\* client is bound
ConnectFail(r) ==
  /\ req[r].pc = "connect"
  /\ CanFault
  /\ faultsLeft' = faultsLeft - 1
  /\ req' = [req EXCEPT ![r].pc = "onError", ![r].threw = TRUE, ![r].faulted = TRUE,
                        ![r].outcome = "error"]
  /\ UNCHANGED <<tokens, nextId, expiredUpTo, txWrites, txStatus, txState, finPending,
                 checkedOut, stats, concurrent, known, issued, blacklist, reqsLeft>>

\* the try block of the preHandler completes: BEGIN; s.inTx = true;
\* set_config('app.tenant'); set_config('app.user_id'); SET LOCAL ROLE app_auth
Begin(r) ==
  /\ req[r].pc = "begin"
  /\ txStatus' = [txStatus EXCEPT ![r] = "active"]
  /\ txState' = [txState EXCEPT ![r].inTx = TRUE]
  /\ stats' = [stats EXCEPT ![r].began = TRUE]
  /\ req' = [req EXCEPT ![r].pc = "handler", ![r].ran = TRUE]
  /\ UNCHANGED <<tokens, nextId, expiredUpTo, txWrites, finPending, checkedOut,
                 concurrent, known, issued, blacklist,
                 reqsLeft, faultsLeft>>

\* BEGIN throws: s.inTx stays false, the catch block runs
BeginFail(r) ==
  /\ req[r].pc = "begin"
  /\ CanFault
  /\ faultsLeft' = faultsLeft - 1
  /\ req' = [req EXCEPT ![r].pc = "pre_fin", ![r].faulted = TRUE]
  /\ UNCHANGED <<tokens, nextId, expiredUpTo, txWrites, txStatus, txState, finPending,
                 checkedOut, stats, concurrent, known, issued, blacklist, reqsLeft>>

\* BEGIN succeeds and one of the binding statements throws: s.inTx is true,
\* the transaction is aborted, the catch block runs
BindFail(r) ==
  /\ req[r].pc = "begin"
  /\ CanFault
  /\ faultsLeft' = faultsLeft - 1
  /\ txStatus' = [txStatus EXCEPT ![r] = "aborted"]
  /\ txState' = [txState EXCEPT ![r].inTx = TRUE]
  /\ stats' = [stats EXCEPT ![r].began = TRUE]
  /\ req' = [req EXCEPT ![r].pc = "pre_fin", ![r].faulted = TRUE]
  /\ UNCHANGED <<tokens, nextId, expiredUpTo, txWrites, finPending,
                 checkedOut, concurrent, known, issued, blacklist, reqsLeft>>

\* catch (err) { await finalizeTx(app, request, "rollback"); throw err; }
\* the rethrown error takes the request to the onError hooks
PreHandlerCleanup(r) ==
  /\ req[r].pc = "pre_fin"
  /\ FinalizeTxStart(r, "rollback", "pre_fin_wait", "onError")

PreHandlerCleanupDone(r) ==
  /\ req[r].pc = "pre_fin_wait"
  /\ \E failed \in BOOLEAN : FinalizeTxEnd(r, failed, "onError")

\* app.addHook("onError", ...): finalizeTx(app, request, "rollback");
\* afterwards the error handler sends the error response
OnError(r) ==
  /\ req[r].pc = "onError"
  /\ FinalizeTxStart(r, OnErrorMode, "onError_wait", "onResponse")

OnErrorDone(r) ==
  /\ req[r].pc = "onError_wait"
  /\ \E failed \in BOOLEAN : FinalizeTxEnd(r, failed, "onResponse")

\* app.addHook("onResponse", ...): finalizeTx(app, request, "commit")
OnResponse(r) ==
  /\ req[r].pc = "onResponse"
  /\ FinalizeTxStart(r, OnResponseMode, "onResponse_wait", "done")

OnResponseDone(r) ==
  /\ req[r].pc = "onResponse_wait"
  /\ \E failed \in BOOLEAN : FinalizeTxEnd(r, failed, "done")

\* ------------------------------------------------------------------------
\* identity/service.ts + identity/routes.ts: handlers
\* ------------------------------------------------------------------------
\* the handler has sent its response; Fastify runs onResponse next
Replied(r, outcome) == [req EXCEPT ![r].pc = "onResponse", ![r].outcome = outcome]

\* crypto.randomUUID() for the jti of a new access token
NewJti == Cardinality(issued) + 1

\* POST /login: loginWithEmailPassword.  Its statements touch only rows of its
\* own new session, so the handler body is one step.
HLogin(r) ==
  /\ req[r].pc = "handler" /\ req[r].kind = "login"
  /\ IF req[r].cred = "good"
       THEN /\ txWrites' = WriteRow(r, nextId, NewRow(nextId, nextId))
            /\ nextId' = nextId + 1
            /\ known' = known \cup {nextId}
            /\ issued' = issued \cup {[jti |-> NewJti, sid |-> nextId]}
            /\ req' = [Replied(r, "ok") EXCEPT ![r].newTok = nextId, ![r].familyId = nextId]
       ELSE /\ req' = Replied(r, "login_failed")
            /\ UNCHANGED <<txWrites, nextId, known, issued>>
  /\ UNCHANGED <<tokens, expiredUpTo, txStatus, txState, finPending, checkedOut,
                 stats, concurrent, blacklist,
                 reqsLeft, faultsLeft>>

\* a statement of the login handler throws: caught, 500 INTERNAL is sent
HLoginFail(r) ==
  /\ req[r].pc = "handler" /\ req[r].kind = "login"
  /\ CanFault
  /\ faultsLeft' = faultsLeft - 1
  /\ txStatus' = [txStatus EXCEPT ![r] = "aborted"]
  /\ req' = [Replied(r, "internal") EXCEPT ![r].faulted = TRUE]
  /\ UNCHANGED <<tokens, nextId, expiredUpTo, txWrites, txState, finPending, checkedOut,
                 stats, concurrent, known, issued, blacklist, reqsLeft>>

\* const isExpired = new Date(stored.expires_at).getTime() <= Date.now():
\* rows expire in creation order, `now` is the last row whose expiry has passed
\* faulty variant: the expiry of the stored row is never looked at
isExpiredNever(id, now) == FALSE
isExpired(id, now) == id <= now

\* refreshWithToken: the checks on the stored row, in the order of the code:
\* if (stored.replaced_by) { revokeRefreshFamily; throw RefreshReuseDetectedError }
\* if (stored.revoked_at || isExpired) throw RefreshFailedError
\* faulty variant: revocation and expiry are looked at first
RefreshCheckExpiryFirst(stored, expired) ==
  IF stored.revoked \/ expired THEN "failed"
  ELSE IF stored.replaced_by # 0 THEN "reuse"
  ELSE "rotate"
RefreshCheck(stored, expired) ==
  IF stored.replaced_by # 0 THEN "reuse"
  ELSE IF stored.revoked \/ expired THEN "failed"
  ELSE "rotate"

\* refreshWithToken up to createRefreshTokenRecord: findRefreshTokenByHash, the
\* replaced_by / revoked_at / expiry checks, resolveUserAuthContext.
\* Date.now() is read here: the clock may have passed the expires_at of
\* further rows (in creation order) since it was last read.
HFind(r) ==
  /\ req[r].pc = "handler" /\ req[r].kind = "refresh"
  /\ \E now \in expiredUpTo..(nextId - 1) :
       LET id == findRefreshTokenByHash(r, hashOpaqueToken(req[r].secret))
           stored == View(r, id)
       IN /\ expiredUpTo' = now
          /\ IF id = 0
               THEN req' = Replied(r, "failed")
             ELSE IF RefreshCheck(stored, isExpired(id, now)) = "reuse"
               THEN req' = [req EXCEPT ![r].pc = "h_revoke", ![r].storedId = id,
                                       ![r].familyId = stored.family_id]
             ELSE IF RefreshCheck(stored, isExpired(id, now)) = "failed"
               THEN req' = [Replied(r, "failed") EXCEPT ![r].storedId = id,
                                       ![r].familyId = stored.family_id,
                                       ![r].sawExpired = isExpired(id, now)]
             ELSE req' = [req EXCEPT ![r].pc = "h_insert", ![r].storedId = id,
                                     ![r].familyId = stored.family_id]
  /\ UNCHANGED <<tokens, nextId, txWrites, txStatus, txState, finPending,
                 checkedOut, stats, concurrent, known, issued, blacklist,
                 reqsLeft, faultsLeft>>

\* revokeRefreshFamily: the UPDATE takes its snapshot
HRevokeStart(r) ==
  /\ req[r].pc = "h_revoke"
  /\ req' = [req EXCEPT ![r].pc = "h_revoke2",
                        ![r].cand = FamilyCandidates(r, req[r].familyId)]
  /\ UNCHANGED <<tokens, nextId, expiredUpTo, txWrites, txStatus, txState, finPending,
                 checkedOut, stats, concurrent, known, issued, blacklist,
                 reqsLeft, faultsLeft>>

\* revokeRefreshFamily: the UPDATE completes once no candidate row is locked by
\* another transaction.  /refresh then throws RefreshReuseDetectedError (401
\* REFRESH_REUSE_DETECTED); /logout sends 204.
HRevokeEnd(r) ==
  /\ req[r].pc = "h_revoke2"
  /\ \A id \in req[r].cand : ~LockedByOther(r, id)
  /\ txWrites' = RevokeRows(r, StillMatching(r, req[r].familyId, req[r].cand))
  /\ req' = Replied(r, IF req[r].kind = "refresh" THEN "reuse" ELSE "ok")
  /\ UNCHANGED <<tokens, nextId, expiredUpTo, txStatus, txState, finPending,
                 checkedOut, stats, concurrent, known, issued, blacklist,
                 reqsLeft, faultsLeft>>

\* createRefreshTokenRecord for the successor, in the family of the stored row
HCreate(r) ==
  /\ req[r].pc = "h_insert"
  /\ txWrites' = WriteRow(r, nextId, NewRow(nextId, req[r].familyId))
  /\ nextId' = nextId + 1
  /\ req' = [req EXCEPT ![r].pc = "h_mark", ![r].newTok = nextId]
  /\ UNCHANGED <<tokens, expiredUpTo, txStatus, txState, finPending,
                 checkedOut, stats, concurrent, known, issued, blacklist,
                 reqsLeft, faultsLeft>>

\* markRefreshTokenRotated: waits while the row matches and is locked by another
\* transaction; returns rowCount === 1
HMark(r) ==
  /\ req[r].pc = "h_mark"
  /\ ~(MarkMatches(r, req[r].storedId) /\ LockedByOther(r, req[r].storedId))
  /\ IF MarkMatches(r, req[r].storedId)
       THEN /\ txWrites' = WriteRow(r, req[r].storedId,
                                    MarkedRow(View(r, req[r].storedId), req[r].newTok))
            /\ req' = [req EXCEPT ![r].pc = "h_sign", ![r].rotated = TRUE]
       ELSE /\ txWrites' = txWrites
            /\ req' = [req EXCEPT ![r].pc = "h_delete"]
  /\ UNCHANGED <<tokens, nextId, expiredUpTo, txStatus, txState, finPending,
                 checkedOut, stats, concurrent, known, issued, blacklist,
                 reqsLeft, faultsLeft>>

\* if (!oldTokenRotated) { deleteRefreshTokenById; throw new RefreshFailedError() }
HDelete(r) ==
  /\ req[r].pc = "h_delete"
  /\ txWrites' = deleteRefreshTokenById(r, req[r].newTok)
  /\ req' = Replied(r, "failed")
  /\ UNCHANGED <<tokens, nextId, expiredUpTo, txStatus, txState, finPending,
                 checkedOut, stats, concurrent, known, issued, blacklist,
                 reqsLeft, faultsLeft>>

\* signAccessToken and the 200 response carrying the new secret
HSign(r) ==
  /\ req[r].pc = "h_sign"
  /\ known' = known \cup {req[r].newTok}
  /\ issued' = issued \cup {[jti |-> NewJti, sid |-> req[r].familyId]}
  /\ req' = Replied(r, "ok")
  /\ UNCHANGED <<tokens, nextId, expiredUpTo, txWrites, txStatus, txState, finPending,
                 checkedOut, stats, concurrent, blacklist,
                 reqsLeft, faultsLeft>>

\* a statement of refreshWithToken throws: the route's catch block answers
\* 401 REFRESH_FAILED; the failed statement has aborted the transaction
HRefreshFail(r) ==
  /\ req[r].kind = "refresh"
  /\ req[r].pc \in {"handler", "h_revoke", "h_revoke2", "h_insert", "h_mark", "h_delete"}
  /\ CanFault
  /\ faultsLeft' = faultsLeft - 1
  /\ txStatus' = [txStatus EXCEPT ![r] = "aborted"]
  /\ req' = [Replied(r, "failed") EXCEPT ![r].faulted = TRUE]
  /\ UNCHANGED <<tokens, nextId, expiredUpTo, txWrites, txState, finPending, checkedOut,
                 stats, concurrent, known, issued, blacklist, reqsLeft>>

\* POST /logout: await blacklistAdd(jti, ttl), then revoke the family of sid
HLogout(r) ==
  /\ req[r].pc = "handler" /\ req[r].kind = "logout"
  /\ blacklist' = blacklist \cup {req[r].jti}
  /\ req' = [req EXCEPT ![r].pc = "h_revoke", ![r].familyId = req[r].sid]
  /\ UNCHANGED <<tokens, nextId, expiredUpTo, txWrites, txStatus, txState, finPending,
                 checkedOut, stats, concurrent, known, issued, reqsLeft, faultsLeft>>

\* blacklistAdd rejects: nothing catches it, the handler throws
HLogoutThrow(r) ==
  /\ req[r].pc = "handler" /\ req[r].kind = "logout"
  /\ CanFault
  /\ faultsLeft' = faultsLeft - 1
  /\ req' = [req EXCEPT ![r].pc = "onError", ![r].threw = TRUE, ![r].faulted = TRUE,
                        ![r].outcome = "error"]
  /\ UNCHANGED <<tokens, nextId, expiredUpTo, txWrites, txStatus, txState, finPending,
                 checkedOut, stats, concurrent, known, issued, blacklist, reqsLeft>>

\* revokeRefreshFamily throws inside /logout: logged, 204 is sent all the same
HLogoutRevokeFail(r) ==
  /\ req[r].kind = "logout"
  /\ req[r].pc \in {"h_revoke", "h_revoke2"}
  /\ CanFault
  /\ faultsLeft' = faultsLeft - 1
  /\ txStatus' = [txStatus EXCEPT ![r] = "aborted"]
  /\ req' = [Replied(r, "ok") EXCEPT ![r].faulted = TRUE]
  /\ UNCHANGED <<tokens, nextId, expiredUpTo, txWrites, txState, finPending, checkedOut,
                 stats, concurrent, known, issued, blacklist, reqsLeft>>

\* ------------------------------------------------------------------------
\* Specifications
\* ------------------------------------------------------------------------
Start(r) == StartLogin(r) \/ StartRefresh(r) \/ StartLogout(r)

\* the steps of a request when no statement and no cache call fails
PreHandlerOk(r) == Connect(r) \/ Begin(r)

HandlerOk(r) ==
  \/ HLogin(r)
  \/ HFind(r) \/ HRevokeStart(r) \/ HRevokeEnd(r) \/ HCreate(r)
  \/ HMark(r) \/ HDelete(r) \/ HSign(r)
  \/ HLogout(r)

ResponseHook(r) == OnResponse(r) \/ OnResponseDone(r)

\* the steps that follow a failed statement or cache call
PreHandlerFailure(r) ==
  \/ ConnectFail(r) \/ BeginFail(r) \/ BindFail(r)
  \/ PreHandlerCleanup(r) \/ PreHandlerCleanupDone(r)

HandlerFailure(r) ==
  \/ HLoginFail(r) \/ HRefreshFail(r) \/ HLogoutThrow(r) \/ HLogoutRevokeFail(r)

ErrorHook(r) == OnError(r) \/ OnErrorDone(r)

NextOk ==
  \/ \E r \in Reqs : Start(r) /\ UNCHANGED extVars
  \/ \E r \in Reqs : PreHandlerOk(r) /\ UNCHANGED extVars
  \/ \E r \in Reqs : HandlerOk(r) /\ UNCHANGED extVars
  \/ \E r \in Reqs : ResponseHook(r) /\ UNCHANGED extVars

Next ==
  \/ NextOk
  \/ \E r \in Reqs : PreHandlerFailure(r) /\ UNCHANGED extVars
  \/ \E r \in Reqs : HandlerFailure(r) /\ UNCHANGED extVars
  \/ \E r \in Reqs : ErrorHook(r) /\ UNCHANGED extVars

\* concurrent requests against a healthy database and cache
Spec == Init /\ [][NextOk]_vars

\* the same system in an environment that injects faults
SpecFaults == InitFaults /\ [][Next]_vars

\* ... in which every enabled step is eventually taken: the event loop runs
\* every ready continuation and every statement eventually returns or throws
SpecLive == InitFaults /\ [][Next]_vars /\ WF_vars(Next)

\* ------------------------------------------------------------------------
\* The finalization hooks invoked any number of times, in any order
\* ------------------------------------------------------------------------
\* onError or onResponse is invoked once the preHandler has returned or thrown
HookCall(r) ==
  /\ req[r].pc \in {"handler", "onError", "hooks"}
  /\ \E mode \in {OnResponseMode, OnErrorMode} : FinalizeTxStart(r, mode, "hooks", "hooks")

\* the suspended finalizeTx invocation resumes
HookResume(r) ==
  /\ req[r].pc = "hooks"
  /\ \E failed \in BOOLEAN : FinalizeTxEnd(r, failed, "hooks")

\* the request is over
HookFinish(r) ==
  /\ req[r].pc = "hooks"
  /\ finPending[r] = "none"
  /\ req' = [req EXCEPT ![r].pc = "done"]
  /\ UNCHANGED <<tokens, nextId, expiredUpTo, txWrites, txStatus, txState, finPending,
                 checkedOut, stats, concurrent, known, issued, blacklist,
                 reqsLeft, faultsLeft>>

NextHooks ==
  \/ \E r \in Reqs : StartRefresh(r) /\ UNCHANGED extVars
  \/ \E r \in Reqs : PreHandlerOk(r) /\ UNCHANGED extVars
  \/ \E r \in Reqs : PreHandlerFailure(r) /\ UNCHANGED extVars
  \/ \E r \in Reqs : (HookCall(r) \/ HookResume(r) \/ HookFinish(r)) /\ UNCHANGED extVars

SpecHooks == InitFaults /\ [][NextHooks]_vars

\* ------------------------------------------------------------------------
\* Observations used by the properties
\* ------------------------------------------------------------------------
Done(r) == req[r].pc = "done"
Overlap(p, q) == <<p, q>> \in concurrent \/ <<q, p>> \in concurrent
IsRefresh(r) == req[r].kind = "refresh"
\* the login has issued a root token and its transaction is committed
IssuedRoot(l) ==
  /\ req[l].kind = "login" /\ req[l].outcome = "ok"
  /\ Done(l) /\ txStatus[l] = "committed"
\* completed rotate calls that presented secret s
RotatesOf(s) == {r \in Reqs : IsRefresh(r) /\ req[r].secret = s /\ Done(r)}
\* the family of the row issued for secret s
FamilyOfSecret(s) ==
  IF \E c \in Reqs : req[c].newTok = s
    THEN req[CHOOSE c \in Reqs : req[c].newTok = s].familyId
    ELSE 0
\* the family request x works on
FamilyOfReq(x) ==
  IF req[x].kind = "refresh" THEN FamilyOfSecret(req[x].secret)
  ELSE IF req[x].kind = "logout" THEN req[x].sid
  ELSE 0
\* committed rows of family f
FamilyRows(f) == {id \in TokenIds : IsRow(tokens[id]) /\ tokens[id].family_id = f}

\* ------------------------------------------------------------------------
\* C1  Rotation is single-use.  With no two requests overlapping: the first
\* rotate(R0) of a freshly issued R0 (not expired, not logged out) succeeds
\* and delivers a new secret R1; every later rotate(R0) is answered
\* REFRESH_REUSE_DETECTED; every rotate(R1) after such a reuse event fails.
\* ------------------------------------------------------------------------
C1_SingleUse ==
  concurrent = {} =>
    \A l \in Reqs : IssuedRoot(l) =>
      LET R0 == req[l].newTok
          first == CHOOSE r \in RotatesOf(R0) : \A q \in RotatesOf(R0) : r <= q
      IN \A r \in RotatesOf(R0) :
           IF r = first
             THEN (/\ ~req[r].sawExpired
                   /\ ~\E x \in Reqs : x < r /\ req[x].kind = "logout" /\ req[x].sid = R0)
                  => /\ req[r].outcome = "ok"
                     /\ req[r].newTok \notin {0, R0}
                     /\ req[r].newTok \in known
             ELSE req[first].outcome = "ok"
                  => /\ req[r].outcome = "reuse"
                     /\ \A p \in RotatesOf(req[first].newTok) :
                          p > r => req[p].outcome \in {"failed", "reuse"}

C1_Witness ==
  \E l, r1, r2, p \in Reqs :
    /\ concurrent = {}
    /\ IssuedRoot(l)
    /\ r1 \in RotatesOf(req[l].newTok) /\ req[r1].outcome = "ok"
    /\ r2 \in RotatesOf(req[l].newTok) /\ r2 > r1 /\ req[r2].outcome = "reuse"
    /\ p \in RotatesOf(req[r1].newTok) /\ p > r2 /\ req[p].outcome = "failed"

\* ------------------------------------------------------------------------
\* C2  Concurrent rotation race.  Two overlapping rotate(R0) calls on a token
\* that was live when each arrived (and does not expire meanwhile), with no
\* other request working on the family at the same time: exactly one
\* succeeds and the other fails; and at no time does the table hold two
\* committed successors of one presented token.
\* ------------------------------------------------------------------------
NoThirdParty(p, q) ==
  \A x \in Reqs \ {p, q} :
    (Overlap(x, p) \/ Overlap(x, q)) => FamilyOfReq(x) # FamilyOfSecret(req[p].secret)

Successors(id) ==
  {n \in TokenIds : /\ IsRow(tokens[n])
                    /\ \E r \in Reqs : IsRefresh(r) /\ req[r].storedId = id /\ req[r].newTok = n}

C2_Race ==
  /\ \A p, q \in Reqs :
       (/\ p < q /\ IsRefresh(p) /\ IsRefresh(q) /\ Done(p) /\ Done(q)
        /\ req[p].secret = req[q].secret /\ Overlap(p, q)
        /\ req[p].live /\ req[q].live
        /\ ~req[p].sawExpired /\ ~req[q].sawExpired
        /\ NoThirdParty(p, q))
       => \/ req[p].outcome = "ok" /\ req[q].outcome \in {"failed", "reuse"}
          \/ req[q].outcome = "ok" /\ req[p].outcome \in {"failed", "reuse"}
  /\ \A id \in TokenIds : Cardinality(Successors(id)) <= 1

C2_Witness ==
  \E p, q \in Reqs :
    /\ p < q /\ IsRefresh(p) /\ IsRefresh(q) /\ Done(p) /\ Done(q)
    /\ req[p].secret = req[q].secret /\ Overlap(p, q)
    /\ req[p].live /\ req[q].live /\ NoThirdParty(p, q)
    /\ req[q].outcome = "ok" /\ req[p].outcome = "failed"
    /\ req[p].newTok # 0 /\ ~req[p].rotated

\* ------------------------------------------------------------------------
\* C3  Once a reuse event has been processed (the request that detected the
\* reuse has committed), every token of the family is revoked.
\* ------------------------------------------------------------------------
ReuseProcessed(r) ==
  IsRefresh(r) /\ req[r].outcome = "reuse" /\ Done(r) /\ txStatus[r] = "committed"

C3_FamilyRevoked ==
  \A r \in Reqs : ReuseProcessed(r) =>
    \A id \in FamilyRows(req[r].familyId) : tokens[id].revoked

\* ------------------------------------------------------------------------
\* C4  In the committed table each family holds at most one token that is
\* both unrevoked and unreplaced.
\* ------------------------------------------------------------------------
LiveRows(f) == {id \in FamilyRows(f) : IsLive(tokens[id])}

C4_OneLive == \A f \in TokenIds : Cardinality(LiveRows(f)) <= 1

C4_Witness ==
  \E f \in TokenIds :
    /\ Cardinality(FamilyRows(f)) >= 2 /\ Cardinality(LiveRows(f)) = 1
    /\ \E r \in Reqs : IsRefresh(r) /\ Done(r) /\ req[r].familyId = f
                       /\ req[r].newTok # 0 /\ req[r].outcome = "failed"

\* ------------------------------------------------------------------------
\* C5  A rotation whose conditional update affected zero rows deletes the
\* successor it had inserted and fails generically; a failed rotation leaves
\* no committed row of its own, and only a rotation whose update affected
\* one row succeeds.
\* ------------------------------------------------------------------------
C5_NoOrphan ==
  \A r \in Reqs : (IsRefresh(r) /\ req[r].newTok # 0) =>
    /\ req[r].outcome = "ok" => req[r].rotated
    /\ req[r].outcome \notin {"none", "ok"} =>
         /\ req[r].outcome = "failed"
         /\ tokens[req[r].newTok] = NoRow
         /\ (~req[r].faulted /\ TxOpen(r)) => txWrites[r][req[r].newTok] = Deleted

C5_Witness ==
  \E r \in Reqs :
    /\ IsRefresh(r) /\ Done(r) /\ req[r].newTok # 0 /\ ~req[r].rotated
    /\ ~req[r].faulted /\ req[r].outcome = "failed"
    /\ txStatus[r] = "committed" /\ tokens[req[r].newTok] = NoRow

\* ------------------------------------------------------------------------
\* C6  However often and in whatever order the finalization hooks run: a
\* request issues at most one COMMIT or ROLLBACK and releases its connection
\* at most once; once a finalization has completed, a request that acquired a
\* connection has released it exactly once and has issued exactly one COMMIT
\* or ROLLBACK if its BEGIN had succeeded, none if BEGIN had failed.
\* ------------------------------------------------------------------------
Finalized(r) == txState[r].finalized /\ finPending[r] = "none"
Statements(r) == stats[r].commits + stats[r].rollbacks

C6_FinalizeOnce ==
  \A r \in Reqs :
    /\ Statements(r) <= 1
    /\ stats[r].releases <= 1
    /\ (stats[r].acquired /\ Finalized(r)) =>
         /\ stats[r].releases = 1
         /\ Statements(r) = (IF stats[r].began THEN 1 ELSE 0)

C6_Witness ==
  \E r \in Reqs :
    /\ Done(r) /\ stats[r].acquired /\ stats[r].began
    /\ stats[r].calls >= 3
    /\ Statements(r) = 1 /\ stats[r].releases = 1

\* C6 as stated: every request that acquired a connection issues exactly one
\* COMMIT or ROLLBACK and releases exactly once.
C6_AsStated ==
  \A r \in Reqs :
    (stats[r].acquired /\ Finalized(r)) =>
      Statements(r) = 1 /\ stats[r].releases = 1

\* ------------------------------------------------------------------------
\* C7  Every connection checked out for a request is eventually released.
\* ------------------------------------------------------------------------
C7_Released == \A r \in Reqs : (r \in checkedOut) ~> (r \notin checkedOut)

C7_Witness ==
  \E r \in Reqs :
    /\ stats[r].acquired /\ req[r].faulted /\ ~req[r].ran
    /\ r \notin checkedOut /\ stats[r].releases = 1
    /\ \E q \in Reqs : /\ q # r /\ stats[q].acquired /\ Done(q)
                       /\ q \notin checkedOut /\ stats[q].releases = 1

\* ------------------------------------------------------------------------
\* C8  A request whose handler returns without throwing gets COMMIT (and no
\* ROLLBACK); a request whose handler throws gets ROLLBACK and never COMMIT,
\* although onResponse still runs after onError.
\* ------------------------------------------------------------------------
C8_CommitOrRollback ==
  \A r \in Reqs : req[r].ran =>
    /\ req[r].threw =>
         /\ stats[r].commits = 0
         /\ Done(r) => stats[r].rollbacks = 1 /\ txStatus[r] = "rolledback"
    /\ (Done(r) /\ ~req[r].threw) =>
         /\ stats[r].commits = 1 /\ stats[r].rollbacks = 0
         /\ ~req[r].faulted => txStatus[r] = "committed"

C8_Witness ==
  \E r, q \in Reqs :
    /\ req[r].ran /\ req[r].threw /\ Done(r) /\ stats[r].calls = 2
    /\ stats[r].rollbacks = 1 /\ stats[r].commits = 0
    /\ req[q].ran /\ ~req[q].threw /\ Done(q) /\ txStatus[q] = "committed"

\* ------------------------------------------------------------------------
\* C9  A request whose handler recovers a business failure and sends the
\* structured error itself (401 LOGIN_FAILED, REFRESH_FAILED,
\* REFRESH_REUSE_DETECTED) is finalized by onResponse with COMMIT, not
\* ROLLBACK: what the handler wrote (the family revocation of a reuse) is
\* committed.
\* ------------------------------------------------------------------------
LocallyRecovered(r) ==
  /\ Done(r) /\ req[r].ran /\ ~req[r].threw
  /\ req[r].outcome \in {"login_failed", "failed", "reuse"}

C9_RecoveredCommits ==
  \A r \in Reqs : LocallyRecovered(r) =>
    /\ stats[r].commits = 1 /\ stats[r].rollbacks = 0
    /\ ~req[r].faulted =>
         /\ txStatus[r] = "committed"
         /\ req[r].outcome = "reuse" =>
              \A id \in req[r].cand : IsRow(tokens[id]) => tokens[id].revoked

C9_Witness ==
  \E r \in Reqs :
    /\ LocallyRecovered(r) /\ req[r].outcome = "reuse"
    /\ txStatus[r] = "committed" /\ stats[r].effect
    /\ \E id \in req[r].cand : tokens[id].revoked /\ tokens[id].replaced_by = 0

\* C9 as stated: such a request has its transaction rolled back, not committed.
C9_AsStated ==
  \A r \in Reqs : LocallyRecovered(r) =>
    stats[r].rollbacks = 1 /\ stats[r].commits = 0 /\ txStatus[r] = "rolledback"

\* ------------------------------------------------------------------------
\* C10  A rotation request that fails otherwise than by reuse detection, or
\* whose transaction does not commit, changes no committed row (a detected
\* reuse commits the revocation of the family); and the committed table never
\* shows a successor whose presented token is not marked replaced by it.
\* ------------------------------------------------------------------------
NoPartialRotation ==
  \A r \in Reqs : (IsRefresh(r) /\ req[r].newTok # 0 /\ IsRow(tokens[req[r].newTok])) =>
    /\ IsRow(tokens[req[r].storedId])
    /\ tokens[req[r].storedId].revoked
    /\ tokens[req[r].storedId].replaced_by = req[r].newTok

C10_FailureLeavesFamily ==
  /\ \A r \in Reqs :
       (IsRefresh(r) /\ req[r].outcome \notin {"ok", "reuse"}) => ~stats[r].effect
  /\ \A r \in Reqs :
       (IsRefresh(r) /\ Done(r) /\ txStatus[r] # "committed") => ~stats[r].effect
  /\ NoPartialRotation

C10_Witness ==
  \E r \in Reqs :
    /\ IsRefresh(r) /\ Done(r) /\ req[r].faulted /\ req[r].outcome = "failed"
    /\ req[r].newTok # 0 /\ ~req[r].rotated /\ txStatus[r] = "rolledback"
    /\ ~stats[r].effect /\ tokens[req[r].newTok] = NoRow
    /\ IsLive(tokens[req[r].storedId])

\* C10 as stated: every failed rotation leaves the family as it was.
C10_AsStated ==
  /\ \A r \in Reqs :
       (IsRefresh(r) /\ Done(r) /\ req[r].outcome # "ok") => ~stats[r].effect
  /\ NoPartialRotation

\* ========================================================================
\* Short locks (libs/redis.ts acquireShortLock / releaseShortLock)
\* ========================================================================
\* acquireShortLock: token = randomUUID(); SET key token PX ttl NX
AcquireShortLock(c) ==
  /\ lockPc[c] = "idle"
  /\ nextLockTok <= MaxLockOps
  /\ nextLockTok' = nextLockTok + 1
  /\ IF lockVal = Nil
       THEN /\ lockVal' = nextLockTok
            /\ lockTok' = [lockTok EXCEPT ![c] = nextLockTok]
            /\ lockPc' = [lockPc EXCEPT ![c] = "held"]
            /\ lockHolds' = lockHolds \cup {nextLockTok}
       ELSE UNCHANGED <<lockVal, lockTok, lockPc, lockHolds>>
  /\ UNCHANGED lockStolen

\* releaseShortLock: const current = await redis.get(lock.key);
\*                   if (current !== lock.token) return false;
ReleaseGet(c) ==
  /\ lockPc[c] = "held"
  /\ IF lockVal # lockTok[c]
       THEN /\ lockPc' = [lockPc EXCEPT ![c] = "idle"]
            /\ lockHolds' = lockHolds \ {lockTok[c]}
       ELSE /\ lockPc' = [lockPc EXCEPT ![c] = "del"]
            /\ UNCHANGED lockHolds
  /\ UNCHANGED <<lockVal, lockTok, nextLockTok, lockStolen>>

\* releaseShortLock: return (await redis.del(lock.key)) === 1
ReleaseDel(c) ==
  /\ lockPc[c] = "del"
  /\ lockVal' = Nil
  /\ lockStolen' = IF lockVal \notin {Nil, lockTok[c]}
                     THEN lockStolen \cup {lockVal} ELSE lockStolen
  /\ lockHolds' = lockHolds \ {lockTok[c]}
  /\ lockPc' = [lockPc EXCEPT ![c] = "idle"]
  /\ UNCHANGED <<lockTok, nextLockTok>>

\* the PX ttl of an acquired token runs out: the key, if it still stores the
\* token, disappears
LockExpire(t) ==
  /\ t \in lockHolds
  /\ lockHolds' = lockHolds \ {t}
  /\ lockVal' = IF lockVal = t THEN Nil ELSE lockVal
  /\ UNCHANGED <<lockPc, lockTok, nextLockTok, lockStolen>>

NextLock ==
  \/ \E c \in Callers : AcquireShortLock(c) /\ UNCHANGED notLock
  \/ \E c \in Callers : ReleaseGet(c) /\ UNCHANGED notLock
  \/ \E c \in Callers : ReleaseDel(c) /\ UNCHANGED notLock
  \/ \E t \in LockTokens : LockExpire(t) /\ UNCHANGED notLock

\* callers of one lock key, with TTL expiry at any time
SpecLock == Init /\ [][NextLock]_vars

\* ------------------------------------------------------------------------
\* C11  A release never deletes a lock key that stores another caller's
\* token: no token is ever deleted by a caller other than its owner.
\* ------------------------------------------------------------------------
C11_NoForeignDelete == lockStolen = {}

\* ------------------------------------------------------------------------
\* C12  At most one caller holds the lock at any time: between a successful
\* acquire and the earlier of its release or TTL expiry no other acquire
\* succeeds.
\* ------------------------------------------------------------------------
C12_MutualExclusion == Cardinality(lockHolds) <= 1

\* ========================================================================
\* Idempotent endpoint: POST /auth/password/forgot with an Idempotency-Key
\* (modules/password/routes.ts, libs/idempotency.ts, libs/outbox.ts)
\* ========================================================================
Max(a, b) == IF a >= b THEN a ELSE b

\* the response body { ok: true, requestAccepted: true } as the sequence of
\* its keys, each key named by its rank in jsonb's key order (shorter keys
\* first, then bytewise): "ok" = 1, "requestAccepted" = 2
ForgotBody == <<1, 2>>
ErrorBody == <<>>

\* JSON.stringify / JSON.parse through the cache keep the key order
ViaCache(body) == body

\* response_body is stored as jsonb ($5::jsonb): keys come back in jsonb order
RECURSIVE InsertKey(_, _)
InsertKey(k, sorted) ==
  IF sorted = <<>> THEN <<k>>
  ELSE IF k <= Head(sorted) THEN <<k>> \o sorted
  ELSE <<Head(sorted)>> \o InsertKey(k, Tail(sorted))
RECURSIVE Jsonb(_)
Jsonb(body) == IF body = <<>> THEN <<>> ELSE InsertKey(Head(body), Jsonb(Tail(body)))

ITxOpen(r) == fq[r].pc \notin {"idle", "done"}

\* a committed, unexpired durable record with this status code and body
DurableBacks(resp) ==
  /\ idemRow # NoRow
  /\ idemRow.expires > clock
  /\ idemRow.status = resp.status /\ idemRow.body = resp.body

\* ON CONFLICT ... DO UPDATE SET status_code, response_body,
\*   expires_at = GREATEST(auth.idempotency_keys.expires_at, EXCLUDED.expires_at)
UpsertExpiryLatest(old, new) == new.expires
UpsertExpiry(old, new) == Max(old.expires, new.expires)
Upsert(old, new) ==
  IF old = NoRow THEN new ELSE [new EXCEPT !.expires = UpsertExpiry(old, new)]

\* the request arrives; the preHandler opens its transaction (now() is the
\* transaction's start time)
IArrive(r) ==
  /\ fq[r].pc = "idle"
  /\ \A q \in IReqs : q < r => fq[q].pc # "idle"
  /\ fq' = [fq EXCEPT ![r].pc = "read_cache", ![r].now = clock]
  /\ UNCHANGED <<clock, idemCache, idemRow, outboxRows, resetRows, streamLen,
                 idemFaults>>

\* readIdempotentResponse: const cached = await readIdempotentResponseCache(opts);
\*                         if (cached) return cached;
IReadCache(r) ==
  /\ fq[r].pc = "read_cache"
  /\ IF idemCache # NoRow /\ idemCache.expires > clock
       THEN LET resp == [status |-> idemCache.status, body |-> ViaCache(idemCache.body)]
            IN fq' = [fq EXCEPT ![r].pc = "reply", ![r].resp = resp,
                                ![r].replay = "cache", ![r].backed = DurableBacks(resp)]
       ELSE fq' = [fq EXCEPT ![r].pc = "read_db"]
  /\ UNCHANGED <<clock, idemCache, idemRow, outboxRows, resetRows, streamLen,
                 idemFaults>>

\* readIdempotentResponse: SELECT ... WHERE ... AND expires_at > now() LIMIT 1,
\* then the best-effort cache fill with the remaining ttl
IReadDb(r) ==
  /\ fq[r].pc = "read_db"
  /\ IF idemRow # NoRow /\ idemRow.expires > fq[r].now
       THEN /\ idemCache' = [status |-> idemRow.status, body |-> idemRow.body,
                             expires |-> clock + Max(1, idemRow.expires - fq[r].now)]
            /\ fq' = [fq EXCEPT ![r].pc = "reply",
                                ![r].resp = [status |-> idemRow.status, body |-> idemRow.body],
                                ![r].replay = "db"]
       ELSE /\ fq' = [fq EXCEPT ![r].pc = "reset"]
            /\ UNCHANGED idemCache
  /\ UNCHANGED <<clock, idemRow, outboxRows, resetRows, streamLen, idemFaults>>

\* requestPasswordReset: findUserByEmailRow, then a reset token row if the
\* address belongs to an active user
IReset(r) ==
  /\ fq[r].pc = "reset"
  /\ \E userActive \in BOOLEAN :
       fq' = [fq EXCEPT ![r].pc = "outbox", ![r].wReset = IF userActive THEN 1 ELSE 0]
  /\ UNCHANGED <<clock, idemCache, idemRow, outboxRows, resetRows, streamLen,
                 idemFaults>>

\* appendOutboxEvent: INSERT ... ON CONFLICT (tenant_id, event_type,
\* idempotency_key) DO NOTHING; waits while another transaction holds an
\* uncommitted row with the same key
IOutbox(r) ==
  /\ fq[r].pc = "outbox"
  /\ ~\E q \in IReqs \ {r} : ITxOpen(q) /\ fq[q].wOutbox
  /\ fq' = [fq EXCEPT ![r].pc = "publish", ![r].wOutbox = (outboxRows = 0)]
  /\ UNCHANGED <<clock, idemCache, idemRow, outboxRows, resetRows, streamLen,
                 idemFaults>>

\* streamAdd("auth-events", ...), then writeIdempotentResponse's
\* writeIdempotentResponseCache({...opts, ttlSec: IDEMPOTENCY_TTL_SEC})
IPublish(r) ==
  /\ fq[r].pc = "publish"
  /\ streamLen' = streamLen + 1
  /\ idemCache' = [status |-> 200, body |-> ForgotBody, expires |-> clock + TtlTicks]
  /\ fq' = [fq EXCEPT ![r].pc = "write_db"]
  /\ UNCHANGED <<clock, idemRow, outboxRows, resetRows, idemFaults>>

\* writeIdempotentResponse: INSERT ... ON CONFLICT DO UPDATE; then
\* reply.code(200).send(responseBody)
IWriteDb(r) ==
  /\ fq[r].pc = "write_db"
  /\ ~\E q \in IReqs \ {r} : ITxOpen(q) /\ fq[q].wIdem # NoRow
  /\ LET new == [status |-> 200, body |-> Jsonb(ForgotBody),
                 expires |-> fq[r].now + TtlTicks]
     IN fq' = [fq EXCEPT ![r].pc = "reply",
                         ![r].wIdem = Upsert(idemRow, new),
                         ![r].shrink = (idemRow # NoRow /\ new.expires < idemRow.expires),
                         ![r].resp = [status |-> 200, body |-> ForgotBody]]
  /\ UNCHANGED <<clock, idemCache, idemRow, outboxRows, resetRows, streamLen,
                 idemFaults>>

\* the INSERT throws: writeIdempotentResponse rethrows, the handler throws,
\* the error handler answers 500 and onError rolls back
IWriteDbFail(r) ==
  /\ fq[r].pc = "write_db"
  /\ idemFaults > 0
  /\ idemFaults' = idemFaults - 1
  /\ fq' = [fq EXCEPT ![r].pc = "rollback", ![r].faulted = TRUE,
                      ![r].resp = [status |-> 500, body |-> ErrorBody]]
  /\ UNCHANGED <<clock, idemCache, idemRow, outboxRows, resetRows, streamLen>>

\* onResponse: COMMIT
ICommit(r) ==
  /\ fq[r].pc = "reply"
  /\ idemRow' = IF fq[r].wIdem # NoRow THEN fq[r].wIdem ELSE idemRow
  /\ outboxRows' = outboxRows + (IF fq[r].wOutbox THEN 1 ELSE 0)
  /\ resetRows' = resetRows + fq[r].wReset
  /\ fq' = [fq EXCEPT ![r].pc = "done"]
  /\ UNCHANGED <<clock, idemCache, streamLen, idemFaults>>

\* onResponse: COMMIT fails (logged); the response was already sent
ICommitFail(r) ==
  /\ fq[r].pc = "reply"
  /\ idemFaults > 0
  /\ idemFaults' = idemFaults - 1
  /\ fq' = [fq EXCEPT ![r].pc = "done", ![r].faulted = TRUE]
  /\ UNCHANGED <<clock, idemCache, idemRow, outboxRows, resetRows, streamLen>>

\* onError: ROLLBACK
IRollback(r) ==
  /\ fq[r].pc = "rollback"
  /\ fq' = [fq EXCEPT ![r].pc = "done"]
  /\ UNCHANGED <<clock, idemCache, idemRow, outboxRows, resetRows, streamLen,
                 idemFaults>>

\* time passes
ITick ==
  /\ clock < MaxClock
  /\ clock' = clock + 1
  /\ UNCHANGED <<idemCache, idemRow, outboxRows, resetRows, streamLen,
                 fq, idemFaults>>

NextIdem ==
  \/ \E r \in IReqs : IArrive(r) /\ UNCHANGED notIdem
  \/ \E r \in IReqs : IReadCache(r) /\ UNCHANGED notIdem
  \/ \E r \in IReqs : IReadDb(r) /\ UNCHANGED notIdem
  \/ \E r \in IReqs : IReset(r) /\ UNCHANGED notIdem
  \/ \E r \in IReqs : IOutbox(r) /\ UNCHANGED notIdem
  \/ \E r \in IReqs : IPublish(r) /\ UNCHANGED notIdem
  \/ \E r \in IReqs : IWriteDb(r) /\ UNCHANGED notIdem
  \/ \E r \in IReqs : IWriteDbFail(r) /\ UNCHANGED notIdem
  \/ \E r \in IReqs : ICommit(r) /\ UNCHANGED notIdem
  \/ \E r \in IReqs : ICommitFail(r) /\ UNCHANGED notIdem
  \/ \E r \in IReqs : IRollback(r) /\ UNCHANGED notIdem
  \/ ITick /\ UNCHANGED notIdem

\* requests that carry one idempotency key and one body
SpecIdem == Init /\ [][NextIdem]_vars

IDone(r) == fq[r].pc = "done"

\* ------------------------------------------------------------------------
\* C13  Two requests with the same (tenant, endpoint, idempotency key) and
\* body, sequential or overlapping, served without any failure and within
\* the retention window, receive the same response, and the side effects
\* behind them (outbox row, reset token row, stream event) happen once.
\* ------------------------------------------------------------------------
C13_IdempotentReplay ==
  \A p, q \in IReqs :
    (/\ p < q /\ IDone(p) /\ IDone(q)
     /\ \A x \in IReqs : ~ITxOpen(x)
     /\ idemFaults = MaxIdemFaults
     /\ clock < TtlTicks)
    => /\ fq[p].resp = fq[q].resp
       /\ outboxRows = 1
       /\ streamLen = 1
       /\ resetRows <= 1

\* ------------------------------------------------------------------------
\* C19  Whenever a read replays a stored response, a committed, unexpired
\* durable record with the same status code and body exists at that moment:
\* the cache never serves a record the durable store does not hold.
\* ------------------------------------------------------------------------
C19_DurableAuthoritative ==
  \A r \in IReqs : fq[r].replay # "none" => fq[r].backed

\* ------------------------------------------------------------------------
\* C20  Every committed write to the durable record of a key leaves its
\* expiry at least where it was: the expiry never decreases.
\* ------------------------------------------------------------------------
C20_ExpiryMonotone ==
  [][(idemRow # NoRow /\ idemRow' # NoRow) => idemRow'.expires >= idemRow.expires]_vars

\* a committed second write that offered an earlier expiry than the stored one
C20_Witness ==
  \E r \in IReqs :
    /\ IDone(r) /\ fq[r].shrink /\ ~fq[r].faulted
    /\ idemRow # NoRow /\ idemRow.expires > fq[r].now + TtlTicks

\* ========================================================================
\* Access-token revocation (plugins/auth.ts, POST /logout, libs/jwt.ts)
\* ========================================================================
\* signAccessToken: exp = now + ttlSec
SignAccess(j) ==
  /\ rvExp[j] = 0
  /\ \A i \in Jtis : i < j => rvExp[i] # 0
  /\ rvExp' = [rvExp EXCEPT ![j] = rvClock + AccessTtlTicks]
  /\ UNCHANGED <<rvClock, rvBlUntil, rvLoggedOut, rvLast>>

\* verifyAccessToken: jwtVerify with clockTolerance JWT_CLOCK_SKEW_SEC rejects
\* the token once exp <= now - tolerance
Verifies(j) == rvExp[j] # 0 /\ rvExp[j] > rvClock - SkewTicks

\* blacklistHas: redis.exists of a key set with EX ttl
blacklistHas(j) == rvBlUntil[j] # 0 /\ rvClock < rvBlUntil[j]

\* the auth preHandler's answer to a request presenting token j
AuthAnswer(j) ==
  IF ~Verifies(j) THEN "INVALID_TOKEN"
  ELSE IF blacklistHas(j) THEN "TOKEN_REVOKED"
  ELSE "ok"

\* a request to an authenticated route presents token j
Present(j) ==
  /\ rvExp[j] # 0
  /\ rvLast' = [rvLast EXCEPT ![j] = AuthAnswer(j)]
  /\ UNCHANGED <<rvClock, rvExp, rvBlUntil, rvLoggedOut>>

\* POST /logout: ttl = Math.max(1, exp - now)
\* faulty variant: the full access-token lifetime
BlacklistTtlFull(j) == AccessTtlTicks
BlacklistTtl(j) == Max(1, rvExp[j] - rvClock)

\* POST /logout presenting token j passes the auth preHandler, then
\* await blacklistAdd(jti, ttl): SET key "1" EX ttl; 204
Logout(j) ==
  /\ AuthAnswer(j) = "ok"
  /\ rvBlUntil' = [rvBlUntil EXCEPT ![j] = rvClock + BlacklistTtl(j)]
  /\ rvLoggedOut' = [rvLoggedOut EXCEPT ![j] = TRUE]
  /\ rvLast' = [rvLast EXCEPT ![j] = "none"]
  /\ UNCHANGED <<rvClock, rvExp>>

RvTick ==
  /\ rvClock < MaxRvClock
  /\ rvClock' = rvClock + 1
  /\ UNCHANGED <<rvExp, rvBlUntil, rvLoggedOut, rvLast>>

NextRevoke ==
  \/ \E j \in Jtis : SignAccess(j) /\ UNCHANGED notRv
  \/ \E j \in Jtis : Present(j) /\ UNCHANGED notRv
  \/ \E j \in Jtis : Logout(j) /\ UNCHANGED notRv
  \/ RvTick /\ UNCHANGED notRv

SpecRevoke == Init /\ [][NextRevoke]_vars

\* ------------------------------------------------------------------------
\* C14  After a logout presenting an access token has completed, no later
\* request presenting that token is let through by the auth preHandler.
\* ------------------------------------------------------------------------
C14_RevokedStaysRejected ==
  \A j \in Jtis : rvLoggedOut[j] => rvLast[j] # "ok"

\* ========================================================================
\* Guard pipeline: tenant-context -> auth -> authorization -> tenant-guard
\* -> tenant-db-context (preHandler hooks in registration order)
\* ========================================================================
\* route config: { tenant, auth, db, permission }
Configs ==
  [tenant : BOOLEAN, auth : BOOLEAN, db : BOOLEAN, permission : BOOLEAN]

\* X-Tenant-Id: absent, not a UUID, or a UUID in lower or upper case
Headers ==
  {NoValue, [kind |-> "bad"]}
    \cup [kind : {"uuid"}, id : Tenants, upper : BOOLEAN, src : {"header"}]

\* Authorization: absent, not verifiable, or an access token whose tenant_id
\* claim is absent (0) or a tenant in lower or upper case, with or without
\* the route's permission
BearerTokens ==
  {NoValue, [kind |-> "invalid"]}
    \cup {t \in [kind : {"access"}, tenant : Tenants \cup {0}, upper : BOOLEAN,
                  perm : BOOLEAN] : t.tenant = 0 => ~t.upper}

\* UUID_RE.test(v)
IsUuid(v) == v # NoValue /\ v.kind = "uuid"

\* canonicalizeUuid: trim().toLowerCase()
\* faulty variant: the string is compared as received
canonicalizeUuidAsIs(v) == v
canonicalizeUuid(v) == IF IsUuid(v) THEN [v EXCEPT !.upper = FALSE] ELSE v

\* the tenant_id claim of a verified token as a value
ClaimTenant(tok) ==
  IF tok.tenant = 0 THEN NoValue
  ELSE [kind |-> "uuid", id |-> tok.tenant, upper |-> tok.upper, src |-> "jwt"]

\* app.ts registerAuthModules: the preHandler hooks in registration order
GuardOrderAuthFirst ==
  <<"auth", "tenant-context", "authorization", "tenant-guard", "tenant-db-context">>
GuardOrder ==
  <<"tenant-context", "auth", "authorization", "tenant-guard", "tenant-db-context">>

\* tenant-context.ts needsTenant
needsTenant(cfg) == cfg.tenant \/ cfg.auth

\* tenant-db-context.ts needsDbTenantTx
needsDbTenantTx(cfg) == cfg.tenant \/ cfg.auth

\* tenant-db-context.ts getTenantForDb
getTenantForDbHeader(r) ==
  IF r.cfg.tenant \/ r.cfg.auth THEN r.requestedTenantId ELSE NoValue
getTenantForDb(r) ==
  IF r.cfg.auth THEN r.tenantId
  ELSE IF r.cfg.tenant THEN r.requestedTenantId
  ELSE NoValue

\* a hook answers with sendApiError: the remaining hooks and the handler are
\* skipped
Reject(r, status, code) ==
  [r EXCEPT !.pc = "rejected", !.reply = status, !.code = code]

\* a !== b on the strings two values stand for
SameString(a, b) == a.kind = b.kind /\ a.id = b.id /\ a.upper = b.upper

\* tenant-context.ts preHandler
TenantContextHook(r) ==
  IF needsTenant(r.cfg) /\ ~IsUuid(r.header)
    THEN Reject(r, 400, "VALIDATION_FAILED")
    ELSE [r EXCEPT !.requestedTenantId = canonicalizeUuid(r.header)]

\* auth.ts preHandler
AuthHook(r) ==
  IF ~r.cfg.auth THEN r
  ELSE IF r.token = NoValue THEN Reject(r, 401, "MISSING_TOKEN")
  ELSE IF r.token.kind # "access" THEN Reject(r, 401, "INVALID_TOKEN")
  ELSE [r EXCEPT !.user = r.token]

\* authorization plugin preHandler
AuthorizationHook(r) ==
  IF ~r.cfg.permission THEN r
  ELSE IF r.user = NoValue THEN Reject(r, 401, "INVALID_TOKEN")
  ELSE IF ~r.user.perm THEN Reject(r, 403, "PERMISSION_DENIED")
  ELSE r

\* tenant-guard.ts preHandler
TenantGuardHook(r) ==
  IF ~r.cfg.auth THEN r
  ELSE IF r.user = NoValue THEN Reject(r, 401, "INVALID_TOKEN")
  ELSE IF ~IsUuid(ClaimTenant(r.user)) THEN Reject(r, 401, "INVALID_TOKEN")
  ELSE IF ~IsUuid(r.header) THEN Reject(r, 400, "VALIDATION_FAILED")
  ELSE IF ~SameString(canonicalizeUuid(r.header), canonicalizeUuid(ClaimTenant(r.user)))
    THEN Reject(r, 403, "TENANT_MISMATCH")
  ELSE [r EXCEPT !.tenantId = canonicalizeUuid(ClaimTenant(r.user))]

\* tenant-db-context.ts preHandler: connect, BEGIN, set_config('app.tenant')
TenantDbContextHook(r) ==
  IF ~needsDbTenantTx(r.cfg) THEN r
  ELSE IF getTenantForDb(r) = NoValue THEN Reject(r, 400, "VALIDATION_FAILED")
  ELSE [r EXCEPT !.db = [kind |-> "tx", tenant |-> getTenantForDb(r)]]

RunHook(name, r) ==
  CASE name = "tenant-context" -> TenantContextHook(r)
    [] name = "auth" -> AuthHook(r)
    [] name = "authorization" -> AuthorizationHook(r)
    [] name = "tenant-guard" -> TenantGuardHook(r)
    [] name = "tenant-db-context" -> TenantDbContextHook(r)

\* a request arrives for a route, with its headers
GArrive ==
  /\ g.pc = "idle"
  /\ gServed < MaxGuardReqs
  /\ \E cfg \in Configs, h \in Headers, t \in BearerTokens :
       g' = [NoG EXCEPT !.pc = "hooks", !.cfg = cfg, !.header = h, !.token = t]
  /\ UNCHANGED gServed

\* the next preHandler hook runs
GHook ==
  /\ g.pc = "hooks"
  /\ Len(g.order) < Len(GuardOrder)
  /\ LET name == GuardOrder[Len(g.order) + 1]
         r == RunHook(name, g)
     IN g' = [r EXCEPT !.order = Append(g.order, name)]
  /\ UNCHANGED gServed

\* all hooks have passed: the route handler is entered
GHandler ==
  /\ g.pc = "hooks"
  /\ Len(g.order) = Len(GuardOrder)
  /\ g' = [g EXCEPT !.pc = "handler"]
  /\ UNCHANGED gServed

\* the response is sent; the next request may arrive
GFinish ==
  /\ g.pc \in {"handler", "rejected"}
  /\ g' = NoG
  /\ gServed' = gServed + 1

NextGuard ==
  \/ GArrive /\ UNCHANGED notGuard
  \/ GHook /\ UNCHANGED notGuard
  \/ GHandler /\ UNCHANGED notGuard
  \/ GFinish /\ UNCHANGED notGuard

SpecGuard == Init /\ [][NextGuard]_vars

\* C15: on a route that requires authentication the tenant bound into the
\* transaction is the canonical tenant claim of the verified token and never
\* the value read from X-Tenant-Id; a header value is bound only on a
\* tenant-only route.
C15_TenantFromToken ==
  g.db # NoValue =>
    IF g.cfg.auth
      THEN /\ g.token # NoValue
           /\ g.token.kind = "access"
           /\ g.db.tenant = canonicalizeUuid(ClaimTenant(g.token))
           /\ g.db.tenant.src = "jwt"
      ELSE /\ g.cfg.tenant
           /\ g.db.tenant = canonicalizeUuid(g.header)
           /\ g.db.tenant.src = "header"

\* an authenticated route whose header spells the tenant in upper case has
\* entered its handler with the token's tenant bound
C15_Witness ==
  /\ g.pc = "handler"
  /\ g.cfg.auth
  /\ g.db # NoValue
  /\ g.header.upper
  /\ g.db.tenant.src = "jwt"

\* C16: the guards of a request run in the order tenant-header intake, token
\* verification, tenant/token match, transaction acquisition, and a
\* transaction is acquired only after every earlier guard the route requires
\* has passed.
C16_GuardOrder ==
  LET rank(n) ==
        CASE n = "tenant-context" -> 1
          [] n = "auth" -> 2
          [] n = "authorization" -> 3
          [] n = "tenant-guard" -> 4
          [] n = "tenant-db-context" -> 5
  IN /\ \A i, j \in DOMAIN g.order : i < j => rank(g.order[i]) < rank(g.order[j])
     /\ g.db # NoValue =>
          /\ \A n \in {"tenant-context", "auth", "tenant-guard"} :
               \E i \in DOMAIN g.order : g.order[i] = n
          /\ g.order[Len(g.order)] = "tenant-db-context"
          /\ needsTenant(g.cfg) => IsUuid(g.header)
          /\ g.cfg.auth =>
               /\ g.token # NoValue
               /\ g.token.kind = "access"
               /\ g.user = g.token
               /\ g.token.tenant = g.header.id
               /\ g.tenantId # NoValue
          /\ g.cfg.permission => g.user # NoValue /\ g.user.perm

\* an authenticated route that requires a permission has passed all five
\* hooks and holds a transaction
C16_Witness ==
  /\ g.pc = "handler"
  /\ g.cfg.auth
  /\ g.cfg.permission
  /\ g.db # NoValue
  /\ Len(g.order) = 5

\* C17: a route that declares db: true enters its handler with a transaction
\* bound to the request whatever its tenant and auth flags are, and a route
\* that declares none of tenant, auth, db acquires no connection.
C17_DeclaredPrimitives ==
  g.pc = "handler" =>
    /\ g.cfg.db => g.db # NoValue
    /\ (~g.cfg.tenant /\ ~g.cfg.auth /\ ~g.cfg.db) => g.db = NoValue

\* C18: a rotate call that presents an unknown secret, a row that is revoked
\* but not replaced, or a row past its expiry is answered with the one
\* generic failure (401 REFRESH_FAILED) whichever of the three it is, hands
\* out no new secret, and writes nothing: no token row is created and no
\* family is changed, in the database or in the request's transaction.
C18_GenericFailure ==
  [][\A r \in Reqs :
       LET id == findRefreshTokenByHash(r, hashOpaqueToken(req[r].secret))
           stored == View(r, id)
       IN (/\ req[r].kind = "refresh"
           /\ req[r].pc = "handler"
           /\ req'[r].pc # "handler"
           /\ \/ id = 0
              \/ /\ id # 0
                 /\ stored.replaced_by = 0
                 /\ (stored.revoked \/ id <= expiredUpTo'))
          => /\ req'[r].pc = "onResponse"
             /\ req'[r].outcome = "failed"
             /\ req'[r].newTok = 0
             /\ ~req'[r].rotated
             /\ known' = known
             /\ issued' = issued
             /\ txWrites'[r] = <<>>
             /\ UNCHANGED <<tokens, nextId, txWrites>>]_vars

\* one rotate call has failed on a row that was revoked but never replaced
\* and not expired, another on an unknown secret, both with the same answer
\* and without a write; their transactions are over
C18_Witness ==
  \E p, q \in Reqs :
    /\ req[p].kind = "refresh" /\ req[q].kind = "refresh"
    /\ req[p].pc = "done" /\ req[q].pc = "done"
    /\ req[p].outcome = "failed" /\ req[q].outcome = "failed"
    /\ req[p].storedId # 0 /\ ~req[p].sawExpired
    /\ tokens[req[p].storedId].revoked
    /\ tokens[req[p].storedId].replaced_by = 0
    /\ req[q].secret = UnknownSecret /\ req[q].storedId = 0
    /\ req[p].newTok = 0 /\ req[q].newTok = 0
    /\ txWrites[p] = <<>> /\ txWrites[q] = <<>>

\* ========================================================================
\* Rate counter: INCR, EXPIRE on the first count, TTL; onRequest decides
\* ========================================================================
\* status of a request the limiter lets through to the rest of the pipeline
Proceeds == 200

\* rate-limit.ts catch block: count = 1; ttl = WINDOW; blocked = false
OnStoreErrorBlocked == [count |-> 1, ttl |-> RateWindow, blocked |-> TRUE]
OnStoreError == [count |-> 1, ttl |-> RateWindow, blocked |-> FALSE]

\* incrLimit: blocked: count > max
Blocked(count, max) == count > max

\* rate-limit.ts: if (blocked) reply.status(429) else the request goes on
Decide(blocked) == IF blocked THEN 429 ELSE Proceeds

\* const count = await redis.incr(rateKey)
RIncr(c) ==
  /\ rc[c].pc = "incr"
  /\ rateVal' = rateVal + 1
  /\ rateExp' = IF rateVal = 0 THEN TtlNoExpiry ELSE rateExp
  /\ rc' = [rc EXCEPT ![c].count = rateVal + 1,
                      ![c].pc = IF rateVal + 1 = 1 THEN "expire" ELSE "ttl"]
  /\ UNCHANGED <<rateClock, rateFaultsLeft>>

\* if (count === 1) await redis.expire(rateKey, windowSec)
RExpire(c) ==
  /\ rc[c].pc = "expire"
  /\ rateExp' = IF rateVal = 0 THEN rateExp ELSE RateWindow
  /\ rc' = [rc EXCEPT ![c].pc = "ttl"]
  /\ UNCHANGED <<rateVal, rateClock, rateFaultsLeft>>

\* const ttl = await redis.ttl(rateKey); return { count, ttl, blocked };
\* then the rest of onRequest: request.rate, 429 when blocked
RTtl(c) ==
  /\ rc[c].pc = "ttl"
  /\ LET blocked == Blocked(rc[c].count, RateMax)
     IN rc' = [rc EXCEPT ![c].ttl = rateExp,
                         ![c].blocked = blocked,
                         ![c].status = Decide(blocked),
                         ![c].pc = "done"]
  /\ UNCHANGED <<rateVal, rateExp, rateClock, rateFaultsLeft>>

\* a cache command of incrLimit rejects (unreachable after the retries, or an
\* error reply); the command has no effect; onRequest catches and goes on
RStoreError(c) ==
  /\ rc[c].pc \in {"incr", "expire", "ttl"}
  /\ rateFaultsLeft > 0
  /\ rateFaultsLeft' = rateFaultsLeft - 1
  /\ rc' = [rc EXCEPT ![c].count = OnStoreError.count,
                      ![c].ttl = OnStoreError.ttl,
                      ![c].blocked = OnStoreError.blocked,
                      ![c].status = Decide(OnStoreError.blocked),
                      ![c].threw = TRUE,
                      ![c].pc = "done"]
  /\ UNCHANGED <<rateVal, rateExp, rateClock>>

\* a second passes; a key whose lifetime has run out is removed
RTick ==
  /\ rateClock < MaxRateClock
  /\ rateClock' = rateClock + 1
  /\ IF rateExp > 1 THEN /\ rateExp' = rateExp - 1
                         /\ UNCHANGED rateVal
     ELSE IF rateExp = 1 THEN /\ rateExp' = TtlNoKey
                              /\ rateVal' = 0
     ELSE UNCHANGED <<rateVal, rateExp>>
  /\ UNCHANGED <<rc, rateFaultsLeft>>

NextRate ==
  \/ \E c \in RateCallers : RIncr(c) /\ UNCHANGED notRate
  \/ \E c \in RateCallers : RExpire(c) /\ UNCHANGED notRate
  \/ \E c \in RateCallers : RTtl(c) /\ UNCHANGED notRate
  \/ \E c \in RateCallers : RStoreError(c) /\ UNCHANGED notRate
  \/ RTick /\ UNCHANGED notRate

SpecRate == Init /\ [][NextRate]_vars

\* C21: every call of the counter that returns gives the post-increment count
\* and the remaining lifetime of the key, which the first increment of the
\* window has set to the window length, and reports blocked exactly when the
\* count is above the maximum.
C21_CountTtlBlocked ==
  \A c \in RateCallers :
    (rc[c].pc = "done" /\ ~rc[c].threw) =>
      /\ rc[c].count >= 1
      /\ rc[c].ttl \in 0..RateWindow
      /\ rc[c].blocked <=> (rc[c].count > RateMax)

\* C22: a request whose counter increment fails at the cache is let through:
\* the limiter answers neither 429 nor 5xx for it.
C22_FailOpen ==
  \A c \in RateCallers :
    (rc[c].pc = "done" /\ rc[c].threw) =>
      /\ rc[c].status = Proceeds
      /\ ~rc[c].blocked

\* the counter already stands above the maximum and a request's cache command
\* has failed; the request went on
C22_Witness ==
  \E c \in RateCallers :
    /\ rc[c].pc = "done" /\ rc[c].threw
    /\ rc[c].status = Proceeds
    /\ rateVal > RateMax

\* ========================================================================
\* Connection ownership: pool.connect in preHandler, statements through
\* request.db, finalizeTx on the client taken from request._txState
\* ========================================================================
\* request.db = client
BoundDbShared(client) == 1
BoundDb(client) == client

\* request r issues a statement on connection k
Issued(p, r, k) ==
  [p EXCEPT ![r].used = @ \cup {k},
            ![r].late = @ \/ (k \in poolIdle),
            ![r].foreign = @ \/ (poolOwner[k] \notin {0, r})]

\* const client = await pool.connect(); s.client = client; request.db = client
PConnect(r) ==
  /\ pr[r].pc = "preHandler"
  /\ \E k \in poolIdle :
       /\ poolIdle' = poolIdle \ {k}
       /\ poolOwner' = [poolOwner EXCEPT ![k] = r]
       /\ pr' = [pr EXCEPT ![r].client = k, ![r].db = BoundDb(k), ![r].pc = "begin"]
  /\ UNCHANGED poolFaultsLeft

\* BEGIN, set_config, SET LOCAL ROLE on client; s.inTx = true
PBegin(r) ==
  /\ pr[r].pc = "begin"
  /\ pr' = [Issued(pr, r, pr[r].client) EXCEPT ![r].inTx = TRUE, ![r].pc = "handler"]
  /\ UNCHANGED <<poolIdle, poolOwner, poolFaultsLeft>>

\* BEGIN fails: catch { await finalizeTx(app, request, "rollback"); throw err }
PBeginFail(r) ==
  /\ pr[r].pc = "begin"
  /\ poolFaultsLeft > 0
  /\ poolFaultsLeft' = poolFaultsLeft - 1
  /\ pr' = [Issued(pr, r, pr[r].client) EXCEPT ![r].pc = "cleanup"]
  /\ UNCHANGED <<poolIdle, poolOwner>>

\* the route handler issues a statement through request.db
PHandlerStmt(r) ==
  /\ pr[r].pc = "handler"
  /\ pr[r].stmts < MaxStmts
  /\ pr' = [Issued(pr, r, pr[r].db) EXCEPT ![r].stmts = @ + 1]
  /\ UNCHANGED <<poolIdle, poolOwner, poolFaultsLeft>>

\* the handler sends its reply
PReply(r) ==
  /\ pr[r].pc = "handler"
  /\ pr' = [pr EXCEPT ![r].pc = "onResponse"]
  /\ UNCHANGED <<poolIdle, poolOwner, poolFaultsLeft>>

\* a statement of the handler fails and the handler throws
PHandlerThrow(r) ==
  /\ pr[r].pc = "handler"
  /\ pr[r].stmts < MaxStmts
  /\ poolFaultsLeft > 0
  /\ poolFaultsLeft' = poolFaultsLeft - 1
  /\ pr' = [Issued(pr, r, pr[r].db) EXCEPT ![r].pc = "onError"]
  /\ UNCHANGED <<poolIdle, poolOwner>>

\* where the request goes when a call of finalizeTx returns
AfterFinalize(pc) ==
  CASE pc = "cleanup" -> "onError"
    [] pc = "onError" -> "onResponse"
    [] pc = "onResponse" -> "done"

\* finalizeTx up to its statement: early return, or s.finalized = true;
\* const client = s.client; s.client = undefined
PFinalizeStart(r) ==
  /\ pr[r].pc \in {"cleanup", "onError", "onResponse"}
  /\ pr[r].fin = "none"
  /\ IF EarlyReturn([finalized |-> pr[r].finalized, client |-> pr[r].client # 0])
       THEN pr' = [pr EXCEPT ![r].pc = AfterFinalize(pr[r].pc)]
       ELSE pr' = [pr EXCEPT ![r].finalized = TRUE, ![r].local = pr[r].client,
                             ![r].client = 0, ![r].fin = "query"]
  /\ UNCHANGED <<poolIdle, poolOwner, poolFaultsLeft>>

\* if (s.inTx) await client.query(COMMIT or ROLLBACK)
PFinalizeQuery(r) ==
  /\ pr[r].fin = "query"
  /\ pr' = [(IF pr[r].inTx THEN Issued(pr, r, pr[r].local) ELSE pr)
              EXCEPT ![r].fin = "release"]
  /\ UNCHANGED <<poolIdle, poolOwner, poolFaultsLeft>>

\* finally { client.release(); request.db = undefined; s.inTx = false }
PFinalizeRelease(r) ==
  /\ pr[r].fin = "release"
  /\ poolIdle' = poolIdle \cup {pr[r].local}
  /\ poolOwner' = [poolOwner EXCEPT ![pr[r].local] = 0]
  /\ pr' = [pr EXCEPT ![r].db = 0, ![r].inTx = FALSE, ![r].local = 0,
                      ![r].fin = "none", ![r].pc = AfterFinalize(pr[r].pc)]
  /\ UNCHANGED poolFaultsLeft

NextPool ==
  \/ \E r \in PReqs : PConnect(r) /\ UNCHANGED notPool
  \/ \E r \in PReqs : PBegin(r) /\ UNCHANGED notPool
  \/ \E r \in PReqs : PBeginFail(r) /\ UNCHANGED notPool
  \/ \E r \in PReqs : PHandlerStmt(r) /\ UNCHANGED notPool
  \/ \E r \in PReqs : PReply(r) /\ UNCHANGED notPool
  \/ \E r \in PReqs : PHandlerThrow(r) /\ UNCHANGED notPool
  \/ \E r \in PReqs : PFinalizeStart(r) /\ UNCHANGED notPool
  \/ \E r \in PReqs : PFinalizeQuery(r) /\ UNCHANGED notPool
  \/ \E r \in PReqs : PFinalizeRelease(r) /\ UNCHANGED notPool

SpecPool == Init /\ [][NextPool]_vars

\* the connections request r holds a reference to
Holds(r) == {pr[r].client, pr[r].db, pr[r].local} \ {0}

\* C23: a pooled connection is checked out by at most one request at a time,
\* a request issues all statements of its transaction on the one connection
\* checked out to it, and none on a connection it has released.
C23_ExclusiveConnection ==
  /\ \A r, q \in PReqs : r # q => Holds(r) \cap Holds(q) = {}
  /\ \A k \in Conns : k \in poolIdle <=> poolOwner[k] = 0
  /\ \A r \in PReqs :
       /\ Cardinality(pr[r].used) <= 1
       /\ ~pr[r].late
       /\ ~pr[r].foreign
       /\ \A k \in Holds(r) : poolOwner[k] = r

\* a connection released by one finished request has served the transaction
\* of a later request, which has finished too
C23_Witness ==
  \E r, q \in PReqs :
    /\ r # q
    /\ pr[r].pc = "done" /\ pr[q].pc = "done"
    /\ pr[r].used # {} /\ pr[r].used = pr[q].used
    /\ pr[r].stmts >= 1 /\ pr[q].stmts >= 1
    /\ \E p \in PReqs : p \notin {r, q} /\ pr[p].pc = "handler"

\* ========================================================================
\* Password login
\* ========================================================================
\* hashPassword / argon2.verify: a hash verifies exactly its own plaintext
hashPassword(plain) == [alg |-> "argon2id", of |-> plain]
DUMMY_PASSWORD_HASH == hashPassword(DummyPlain)

\* libs/crypto.ts verifyPassword
verifyPassword(hash, plain) == hash.of = plain

\* rows auth.resolve_login_candidate may return for an email
Candidates ==
  {NoValue} \cup
    [kind : {"user"}, password_hash : {hashPassword(p) : p \in 1..MaxPasswords},
     is_active : BOOLEAN, verified : BOOLEAN]

\* const passwordHash = user?.password_hash ?? DUMMY_PASSWORD_HASH
PasswordHashOf(user) ==
  IF user = NoValue THEN DUMMY_PASSWORD_HASH ELSE user.password_hash

\* calls of verifyPassword by loginWithEmailPassword
VerifyCallsKnownOnly(user) == IF user = NoValue THEN 0 ELSE 1
VerifyCalls(user) == 1

\* if (!user || !user.is_active || !user.verified_at || !ok) throw LoginFailedError
LoginOkUnverified(user, ok) == user # NoValue /\ user.is_active /\ ok
LoginOk(user, ok) == user # NoValue /\ user.is_active /\ user.verified /\ ok

\* the replies of POST /login
LoginFailedResp ==
  [status |-> 401, code |-> "LOGIN_FAILED", message |-> "Invalid credentials."]
LoginInternalResp ==
  [status |-> 500, code |-> "INTERNAL", message |-> "Login temporarily unavailable."]
LoginOkResp == [status |-> 200, code |-> "OK", message |-> "tokens"]

\* getLoginFailureState: locked: count >= maxAttempts
SoftLocked(count) == count >= SoftLockMax

\* POST /auth/login arrives: body, optional X-Tenant-Id, and what the
\* database holds for the email
LArrive ==
  /\ la.pc = "idle"
  /\ Len(lLog) < MaxLoginReqs
  /\ \E e \in Emails, h \in BOOLEAN, u \in Candidates, p \in Passwords :
       la' = [NoLa EXCEPT !.pc = "softlock", !.email = e, !.tenantHdr = h,
                          !.cand = u, !.password = p]
  /\ UNCHANGED <<lFailures, lLog, lFaultsLeft>>

\* if (requestedTenantId) getLoginFailureState; locked: 401 LOGIN_FAILED
LSoftLock ==
  /\ la.pc = "softlock"
  /\ IF la.tenantHdr /\ SoftLocked(lFailures[la.email])
       THEN la' = [la EXCEPT !.pc = "replied", !.locked = TRUE, !.resp = LoginFailedResp]
       ELSE la' = [la EXCEPT !.pc = "login"]
  /\ UNCHANGED <<lFailures, lLog, lFaultsLeft>>

\* loginWithEmailPassword up to the credential check
LVerify ==
  /\ la.pc = "login"
  /\ LET hash == PasswordHashOf(la.cand)
         ok == verifyPassword(hash, la.password)
     IN la' = [la EXCEPT !.verifyCalls = @ + VerifyCalls(la.cand),
                         !.pc = IF LoginOk(la.cand, ok) THEN "issue" ELSE "failed"]
  /\ UNCHANGED <<lFailures, lLog, lFaultsLeft>>

\* createSession, signAccessToken, createRefreshTokenRecord; the handler
\* clears the failure counter and replies with the tokens
LIssue ==
  /\ la.pc = "issue"
  /\ la' = [la EXCEPT !.pc = "replied", !.session = TRUE, !.access = TRUE,
                      !.refresh = TRUE, !.resp = LoginOkResp]
  /\ lFailures' = [lFailures EXCEPT ![la.email] = 0]
  /\ UNCHANGED <<lLog, lFaultsLeft>>

\* a statement of loginWithEmailPassword fails: 500 INTERNAL, the
\* transaction is aborted, nothing is handed out
LInternal ==
  /\ la.pc \in {"login", "issue"}
  /\ lFaultsLeft > 0
  /\ lFaultsLeft' = lFaultsLeft - 1
  /\ la' = [la EXCEPT !.pc = "replied", !.resp = LoginInternalResp]
  /\ UNCHANGED <<lFailures, lLog>>

\* catch (LoginFailedError): registerLoginFailure when a tenant was
\* requested, then 401 LOGIN_FAILED
LFailed ==
  /\ la.pc = "failed"
  /\ lFailures' = IF la.tenantHdr
                    THEN [lFailures EXCEPT ![la.email] = IF @ < SoftLockMax THEN @ + 1 ELSE @]
                    ELSE lFailures
  /\ la' = [la EXCEPT !.pc = "replied", !.resp = LoginFailedResp]
  /\ UNCHANGED <<lLog, lFaultsLeft>>

\* the response is out; the attempt is over
LFinish ==
  /\ la.pc = "replied"
  /\ lLog' = Append(lLog, [cand |-> la.cand, password |-> la.password,
                           locked |-> la.locked, verifyCalls |-> la.verifyCalls,
                           resp |-> la.resp,
                           issued |-> la.session \/ la.access \/ la.refresh])
  /\ la' = NoLa
  /\ UNCHANGED <<lFailures, lFaultsLeft>>

NextLogin ==
  \/ LArrive /\ UNCHANGED notLogin
  \/ LSoftLock /\ UNCHANGED notLogin
  \/ LVerify /\ UNCHANGED notLogin
  \/ LIssue /\ UNCHANGED notLogin
  \/ LInternal /\ UNCHANGED notLogin
  \/ LFailed /\ UNCHANGED notLogin
  \/ LFinish /\ UNCHANGED notLogin

SpecLogin == Init /\ [][NextLogin]_vars

C26_TenantMatch ==
  (g.cfg # NoValue /\ g.cfg.auth /\ IsUuid(g.header)) =>
    /\ (/\ g.token # NoValue /\ g.token.kind = "access" /\ g.token.tenant # 0
        /\ (g.cfg.permission => g.token.perm)
        /\ \E i \in DOMAIN g.order : g.order[i] = "tenant-guard")
       => IF g.header.id = g.token.tenant
            THEN /\ g.pc # "rejected"
                 /\ g.tenantId # NoValue
                 /\ g.tenantId.id = g.token.tenant
                 /\ ~g.tenantId.upper
            ELSE /\ g.pc = "rejected"
                 /\ g.reply = 403
                 /\ g.code = "TENANT_MISMATCH"
                 /\ g.db = NoValue
    /\ (g.pc = "rejected" /\ (g.token = NoValue \/ g.token.kind # "access"))
       => g.reply = 401 /\ g.code \in {"MISSING_TOKEN", "INVALID_TOKEN"}
    /\ g.code = "TENANT_MISMATCH"
       => /\ g.token # NoValue /\ g.token.kind = "access"
          /\ g.token.tenant # 0 /\ g.token.tenant # g.header.id

\* a request whose header spells the tenant in upper case and whose token
\* spells it in lower case has reached its handler
C26_Witness ==
  /\ g.pc = "handler"
  /\ g.cfg.auth
  /\ g.header.upper
  /\ g.token.tenant = g.header.id
  /\ ~g.token.upper
  /\ g.db # NoValue

\* ========================================================================
\* POST /auth/password/forgot next to the short lock of its email
\* (tenant, scope 'pwreset_request', email hash) taken by other callers
\* ========================================================================
NextForgot ==
  \/ \E c \in Callers : AcquireShortLock(c) /\ UNCHANGED notLock
  \/ \E t \in LockTokens : LockExpire(t) /\ UNCHANGED notLock
  \/ IArrive(1) /\ UNCHANGED notIdem
  \/ \E r \in IReqs : IReadCache(r) /\ UNCHANGED notIdem
  \/ \E r \in IReqs : IReadDb(r) /\ UNCHANGED notIdem
  \/ \E r \in IReqs : IReset(r) /\ UNCHANGED notIdem
  \/ \E r \in IReqs : IOutbox(r) /\ UNCHANGED notIdem
  \/ \E r \in IReqs : IPublish(r) /\ UNCHANGED notIdem
  \/ \E r \in IReqs : IWriteDb(r) /\ UNCHANGED notIdem
  \/ \E r \in IReqs : ICommit(r) /\ UNCHANGED notIdem

\* one forgot request, while other callers take the lock and let it expire
SpecForgot == Init /\ [][NextForgot]_vars

\* C27: while the short lock of the email is held by another caller, a
\* forgot request performs no reset-token, outbox or stream side effect (it
\* is answered 409 PASSWORD_RESET_IN_PROGRESS instead).
C27_LockedNoSideEffect ==
  [][lockVal # Nil =>
       /\ \A r \in IReqs : /\ fq'[r].wReset = fq[r].wReset
                           /\ fq'[r].wOutbox = fq[r].wOutbox
       /\ streamLen' = streamLen
       /\ resetRows' = resetRows
       /\ outboxRows' = outboxRows]_vars

\* C28 as stated: the blacklist entry written at logout gets a TTL equal to
\* the token's remaining lifetime exp - now, never a longer one.
C28_AsStated ==
  [][\A j \in Jtis :
       rvBlUntil'[j] # rvBlUntil[j] =>
         rvBlUntil'[j] - rvClock = rvExp[j] - rvClock]_vars

\* C28 (amended): the blacklist entry written at logout gets the TTL
\* max(1, exp - now): the token's remaining lifetime when at least one second
\* of it is left, and one second when the token is at or past exp and only
\* accepted within the clock tolerance.
C28_TtlRemainingOrOne ==
  [][\A j \in Jtis :
       rvBlUntil'[j] # rvBlUntil[j] =>
         /\ rvBlUntil'[j] - rvClock >= 1
         /\ rvExp[j] - rvClock >= 1 => rvBlUntil'[j] - rvClock = rvExp[j] - rvClock
         /\ rvExp[j] - rvClock < 1 => rvBlUntil'[j] - rvClock = 1]_vars

\* one token was logged out with lifetime left, another at its expiry
\* within the clock tolerance
C28_Witness ==
  \E j, k \in Jtis :
    /\ rvLoggedOut[j] /\ rvBlUntil[j] = rvExp[j]
    /\ rvLoggedOut[k] /\ rvBlUntil[k] > rvExp[k]

\* ========================================================================
\* Access tokens: signAccessToken and verifyAccessToken
\* ========================================================================
\* claim values: undefined, null, "", a string that is no UUID, a UUID in
\* lower or upper case, a number
Undefined == [kind |-> "undefined"]
Null == [kind |-> "null"]
EmptyString == [kind |-> "string", text |-> "empty"]
OtherString == [kind |-> "string", text |-> "other"]
AccessString == [kind |-> "string", text |-> "access"]
UuidStrings == [kind : {"string"}, text : {"uuid"}, id : Tenants, upper : BOOLEAN]
Num(n) == [kind |-> "number", n |-> n]

\* the outcome of a call that throws
Thrown == [kind |-> "thrown"]

\* UUID_RE.test(value), with the i flag
UuidShaped(v) == v.kind = "string" /\ v.text = "uuid"

\* typeof value === "string" && value is not ""
NonEmptyString(v) == v.kind = "string" /\ v.text # "empty"

\* v !== undefined && v !== null && v !== ""
Supplied(v) == v # Undefined /\ v # Null /\ v # EmptyString

\* a ?? b
Coalesce(a, b) == IF a = Undefined \/ a = Null THEN b ELSE a

\* signAccessToken(sub, tenantId, ttlSec, { sid, ver }): the signed claims,
\* or the call throws
signAccessTokenAlways(sub, tenantId, sid, ver) ==
  IF ~NonEmptyString(sub) THEN Thrown
  ELSE [typ |-> AccessString, sub |-> sub, jti |-> OtherString,
        tenant_id |-> tenantId, tid |-> tenantId,
        sid |-> IF Supplied(sid) THEN sid ELSE Undefined,
        ver |-> IF ver.kind = "number" THEN ver ELSE Num(1),
        sig |-> "active"]
signAccessToken(sub, tenantId, sid, ver) ==
  IF ~NonEmptyString(sub) THEN Thrown
  ELSE IF Supplied(tenantId) /\ ~UuidShaped(tenantId) THEN Thrown
  ELSE IF Supplied(sid) /\ ~UuidShaped(sid) THEN Thrown
  ELSE [typ |-> AccessString, sub |-> sub, jti |-> OtherString,
        tenant_id |-> IF Supplied(tenantId) THEN tenantId ELSE Undefined,
        tid |-> IF Supplied(tenantId) THEN tenantId ELSE Undefined,
        sid |-> IF Supplied(sid) THEN sid ELSE Undefined,
        ver |-> IF ver.kind = "number" THEN ver ELSE Num(1),
        sig |-> "active"]

\* jwtVerify with the active secret, then with the previous one if configured
SignatureOk(tok, prev) == tok.sig = "active" \/ (prev /\ tok.sig = "previous")

\* verifyAccessToken: the tenant claim of the returned payload
VerifiedTenantUnchecked(raw) == IF Supplied(raw) THEN raw ELSE Undefined
VerifiedTenant(raw) ==
  IF Supplied(raw) THEN (IF UuidShaped(raw) THEN raw ELSE Thrown) ELSE Undefined

\* verifyAccessToken(token): the returned payload, or the call throws
verifyAccessToken(tok, prev) ==
  LET tenant == VerifiedTenant(Coalesce(tok.tenant_id, tok.tid))
  IN IF ~SignatureOk(tok, prev) THEN Thrown
     ELSE IF tok.typ # AccessString THEN Thrown
     ELSE IF ~NonEmptyString(tok.sub) THEN Thrown
     ELSE IF ~NonEmptyString(tok.jti) THEN Thrown
     ELSE IF tenant = Thrown THEN Thrown
     ELSE IF tok.sid # Undefined /\ ~UuidShaped(tok.sid) THEN Thrown
     ELSE IF tok.ver # Undefined /\ ~(tok.ver.kind = "number" /\ tok.ver.n >= 1) THEN Thrown
     ELSE [tok EXCEPT !.tenant_id = tenant, !.tid = tenant,
                      !.ver = IF tok.ver = Undefined THEN Num(1) ELSE tok.ver]

\* values a caller may pass as tenantId / sid / ver, and claims a presented
\* token may carry
TenantInputs == {Undefined, Null, EmptyString, OtherString} \cup UuidStrings
SidInputs == {Undefined, OtherString} \cup {u \in UuidStrings : u.id = 1 /\ ~u.upper}
VerInputs == {Undefined, OtherString, Num(0), Num(1), Num(2)}
PresentedTokens ==
  [typ : {Undefined, AccessString, OtherString},
   sub : {Undefined, EmptyString, OtherString, Num(1)},
   jti : {Undefined, OtherString},
   tenant_id : {Undefined, EmptyString, OtherString} \cup {u \in UuidStrings : u.id = 1},
   tid : {Undefined, OtherString} \cup {u \in UuidStrings : u.id = 1 /\ ~u.upper},
   sid : SidInputs,
   ver : VerInputs,
   sig : {"active", "previous", "forged"}]

\* the service signs a token
JSign ==
  /\ jw.pc = "idle"
  /\ jwOps < MaxJwtOps
  /\ \E sub \in {EmptyString, OtherString}, t \in TenantInputs, sid \in SidInputs,
        ver \in {Undefined, Num(0), Num(1)}, prev \in BOOLEAN :
       LET tok == signAccessToken(sub, t, sid, ver)
       IN jw' = [NoJw EXCEPT !.pc = IF tok = Thrown THEN "done" ELSE "signed",
                             !.issued = tok # Thrown, !.supplied = t,
                             !.token = tok, !.prev = prev]
  /\ UNCHANGED jwOps

\* a request presents a token the service did not sign this way
JPresent ==
  /\ jw.pc = "idle"
  /\ jwOps < MaxJwtOps
  /\ \E tok \in PresentedTokens, prev \in BOOLEAN :
       jw' = [NoJw EXCEPT !.pc = "signed", !.token = tok, !.prev = prev]
  /\ UNCHANGED jwOps

\* verifyAccessToken(token)
JVerify ==
  /\ jw.pc = "signed"
  /\ jw' = [jw EXCEPT !.pc = "done", !.result = verifyAccessToken(jw.token, jw.prev)]
  /\ UNCHANGED jwOps

\* the next token
JNext ==
  /\ jw.pc = "done"
  /\ jw' = NoJw
  /\ jwOps' = jwOps + 1

NextJwt ==
  \/ JSign /\ UNCHANGED notJwt
  \/ JPresent /\ UNCHANGED notJwt
  \/ JVerify /\ UNCHANGED notJwt
  \/ JNext /\ UNCHANGED notJwt

SpecJwt == Init /\ [][NextJwt]_vars

C30_NoPartialTrust ==
  jw.pc = "done" /\ jw.token # Thrown =>
    LET t == jw.token
        raw == IF t.tenant_id \in {Undefined, Null} THEN t.tid ELSE t.tenant_id
        wellFormed ==
          /\ t.typ = AccessString
          /\ t.sub.kind = "string" /\ t.sub # EmptyString
          /\ t.jti.kind = "string" /\ t.jti # EmptyString
          /\ raw \in {Undefined, Null, EmptyString} \/ (raw.kind = "string" /\ raw.text = "uuid")
          /\ t.sid = Undefined \/ (t.sid.kind = "string" /\ t.sid.text = "uuid")
          /\ t.ver = Undefined \/ (t.ver.kind = "number" /\ t.ver.n >= 1)
    IN /\ jw.result # Thrown => wellFormed /\ SignatureOk(t, jw.prev)
       /\ ~wellFormed => jw.result = Thrown
       /\ jw.result # Thrown =>
            /\ jw.result.typ = AccessString
            /\ jw.result.ver.kind = "number" /\ jw.result.ver.n >= 1
            /\ t.ver = Undefined => jw.result.ver = Num(1)
            /\ jw.result.tenant_id = Undefined \/ UuidShaped(jw.result.tenant_id)
            /\ jw.result.tid = jw.result.tenant_id
            /\ jw.result.sid = Undefined \/ UuidShaped(jw.result.sid)

\* a presented token without ver has been accepted and returned with ver 1
C30_Witness ==
  /\ ~jw.issued /\ jw.pc = "done"
  /\ jw.token # Thrown
  /\ jw.token.ver = Undefined
  /\ jw.token.tenant_id # Undefined
  /\ jw.result # Thrown
  /\ jw.result.ver = Num(1)

\* ========================================================================
\* Session issuance: login and magic-link consumption
\* ========================================================================
\* createRefreshTokenRecord: INSERT ... VALUES ($1, $2,
\*   COALESCE($3::uuid, gen_random_uuid()), $4) RETURNING ...
\* faulty variant: the family id passed by the caller is ignored
createRefreshTokenRecordOwnFamily(id, tokenHash, familyId) ==
  [id |-> id, token_hash |-> tokenHash, family_id |-> id,
   replaced_by |-> 0, revoked |-> FALSE]
createRefreshTokenRecord(id, tokenHash, familyId) ==
  [id |-> id, token_hash |-> tokenHash,
   family_id |-> IF familyId = Nil THEN id ELSE familyId,
   replaced_by |-> 0, revoked |-> FALSE]

\* the transaction of request r is open
UTxOpen(r) == iu[r].tx = "open"

\* magic-link rows request r sees: committed ones it has not deleted itself
LinkView(r) == linkRows \ iu[r].wLink

\* requestMagicLink: createMagicLinkTokenRecord (its request has committed)
URequestLink ==
  /\ \E l \in Links \ linkRows :
       /\ \A k \in Links : k < l => k \in linkRows
       /\ linkRows' = linkRows \cup {l}
  /\ \A r \in UReqs : iu[r].pc = "idle"
  /\ UNCHANGED <<sessRows, rtRows, iu, nextUuid, issueFaults>>

\* POST /login once the password has been verified; GET /magic-link/consume
\* with a token.  The preHandler has opened the transaction.
UArrive(r) ==
  /\ iu[r].pc = "idle"
  /\ \A q \in UReqs : q < r => iu[q].pc # "idle"
  /\ \/ iu' = [iu EXCEPT ![r] = [NoIu EXCEPT !.kind = "login", !.pc = "session",
                                              !.tx = "open"]]
     \/ \E l \in Links \cup {0} :
          iu' = [iu EXCEPT ![r] = [NoIu EXCEPT !.kind = "magic", !.pc = "find",
                                                !.link = l, !.tx = "open"]]
  /\ UNCHANGED <<sessRows, rtRows, linkRows, nextUuid, issueFaults>>

\* consumeMagicLink: findMagicLinkTokenByRawToken, the expiry check,
\* findUserById
UFind(r) ==
  /\ iu[r].pc = "find"
  /\ IF iu[r].link \notin LinkView(r)
       THEN iu' = [iu EXCEPT ![r].pc = "commit", ![r].outcome = "invalid"]
       ELSE \E reason \in {"none", "expired", "user"} :
              iu' = [iu EXCEPT ![r].pc = "delete", ![r].reason = reason]
  /\ UNCHANGED <<sessRows, rtRows, linkRows, nextUuid, issueFaults>>

\* deleteMagicLinkTokenById: waits for the row lock of another transaction
\* that has deleted the row; the number of deleted rows is not looked at
UDelete(r) ==
  /\ iu[r].pc = "delete"
  /\ ~\E q \in UReqs \ {r} : UTxOpen(q) /\ iu[r].link \in iu[q].wLink
  /\ IF iu[r].reason = "none"
       THEN iu' = [iu EXCEPT ![r].pc = "session",
                             ![r].wLink = @ \cup ({iu[r].link} \cap linkRows)]
       ELSE iu' = [iu EXCEPT ![r].pc = "commit",
                             ![r].wLink = @ \cup ({iu[r].link} \cap linkRows),
                             ![r].outcome = iu[r].reason]
  /\ UNCHANGED <<sessRows, rtRows, linkRows, nextUuid, issueFaults>>

\* const sessionId = randomUUID(); await createSession(db, { sessionId, ... });
\* signAccessToken(..., { sid: sessionId, ver: 1 })
UCreateSession(r) ==
  /\ iu[r].pc = "session"
  /\ iu' = [iu EXCEPT ![r].pc = "token", ![r].sessionId = nextUuid,
                      ![r].sid = nextUuid, ![r].wSess = @ \cup {nextUuid}]
  /\ nextUuid' = nextUuid + 1
  /\ UNCHANGED <<sessRows, rtRows, linkRows, issueFaults>>

\* const refreshToken = randomUUID(); createRefreshTokenRecord(db, { tokenHash:
\* hashOpaqueToken(refreshToken), familyId: sessionId }); the 200 response
\* carries the secret
UCreateToken(r) ==
  /\ iu[r].pc = "token"
  /\ iu' = [iu EXCEPT ![r].pc = "commit", ![r].secret = nextUuid,
                      ![r].wRt = @ \cup {createRefreshTokenRecord(nextUuid + 1,
                                           hashOpaqueToken(nextUuid), iu[r].sessionId)},
                      ![r].outcome = "ok"]
  /\ nextUuid' = nextUuid + 2
  /\ UNCHANGED <<sessRows, rtRows, linkRows, issueFaults>>

\* a statement of the handler throws: the transaction is aborted and an error
\* response is sent
UStmtFail(r) ==
  /\ iu[r].pc \in {"find", "delete", "session", "token"}
  /\ issueFaults > 0
  /\ issueFaults' = issueFaults - 1
  /\ iu' = [iu EXCEPT ![r].pc = "commit", ![r].tx = "aborted", ![r].outcome = "error"]
  /\ UNCHANGED <<sessRows, rtRows, linkRows, nextUuid>>

\* finalizeTx after the response: COMMIT makes the rows of an open transaction
\* the committed ones; an aborted transaction is rolled back
UFinalize(r) ==
  /\ iu[r].pc = "commit"
  /\ IF iu[r].tx = "open"
       THEN /\ sessRows' = sessRows \cup iu[r].wSess
            /\ rtRows' = rtRows \cup iu[r].wRt
            /\ linkRows' = linkRows \ iu[r].wLink
            /\ iu' = [iu EXCEPT ![r].pc = "done", ![r].tx = "committed"]
       ELSE /\ iu' = [iu EXCEPT ![r].pc = "done", ![r].tx = "rolledback"]
            /\ UNCHANGED <<sessRows, rtRows, linkRows>>
  /\ UNCHANGED <<nextUuid, issueFaults>>

\* COMMIT throws (logged only): nothing of the transaction is committed
UFinalizeFail(r) ==
  /\ iu[r].pc = "commit"
  /\ issueFaults > 0
  /\ issueFaults' = issueFaults - 1
  /\ iu' = [iu EXCEPT ![r].pc = "done", ![r].tx = "rolledback"]
  /\ UNCHANGED <<sessRows, rtRows, linkRows, nextUuid>>

NextIssue ==
  \/ URequestLink /\ UNCHANGED notIssue
  \/ \E r \in UReqs : UArrive(r) /\ UNCHANGED notIssue
  \/ \E r \in UReqs : UFind(r) /\ UNCHANGED notIssue
  \/ \E r \in UReqs : UDelete(r) /\ UNCHANGED notIssue
  \/ \E r \in UReqs : UCreateSession(r) /\ UNCHANGED notIssue
  \/ \E r \in UReqs : UCreateToken(r) /\ UNCHANGED notIssue
  \/ \E r \in UReqs : UStmtFail(r) /\ UNCHANGED notIssue
  \/ \E r \in UReqs : UFinalize(r) /\ UNCHANGED notIssue
  \/ \E r \in UReqs : UFinalizeFail(r) /\ UNCHANGED notIssue

SpecIssue == Init /\ [][NextIssue]_vars

\* rows of family f that exist anywhere: committed, or written by a request
RowsOfFamily(f) ==
  {w \in rtRows \cup UNION {iu[q].wRt : q \in UReqs} : w.family_id = f}

\* C31: a login or magic-link consumption that answers 200 has inserted
\* exactly one session row and exactly one refresh-token row in its
\* transaction; the row holds the hash of the secret, not the secret, its
\* family id is the id of the new session, it is unrevoked and unreplaced, and
\* it is the only row of that family anywhere; no other request created that
\* session.  Once the transaction has committed, both rows are in the tables.
C31_OneSessionOneToken ==
  \A r \in UReqs : iu[r].outcome = "ok" =>
    /\ iu[r].wSess = {iu[r].sessionId}
    /\ Cardinality(iu[r].wRt) = 1
    /\ \A w \in iu[r].wRt :
         /\ w.token_hash = hashOpaqueToken(iu[r].secret)
         /\ w.family_id = iu[r].sessionId
         /\ w.replaced_by = 0 /\ ~w.revoked
         /\ RowsOfFamily(iu[r].sessionId) = {w}
    /\ \A q \in UReqs \ {r} : iu[r].sessionId \notin iu[q].wSess
    /\ iu[r].tx = "committed" =>
         /\ iu[r].sessionId \in sessRows
         /\ iu[r].wRt \subseteq rtRows

\* a login and a magic-link consumption have both succeeded and committed
C31_Witness ==
  \E r, q \in UReqs :
    /\ iu[r].kind = "login" /\ iu[r].outcome = "ok" /\ iu[r].tx = "committed"
    /\ iu[q].kind = "magic" /\ iu[q].outcome = "ok" /\ iu[q].tx = "committed"
    /\ Cardinality(sessRows) = 2 /\ Cardinality(rtRows) = 2
    /\ iu[q].link \notin linkRows

\* ========================================================================
\* The top-level error handler (app.ts setErrorHandler, libs/error-map.ts)
\* ========================================================================
\* an error object without statusCode
NoStatusCode == 0

\* SQLSTATE codes mapDbError knows
KnownDbCodes == {"23505", "23503", "23514", "23502", "22P02"}

\* errors that reach the handler: statusCode, code, message and validation as
\* the thrower set them ("absent": the property is undefined; "raw": the
\* thrower's own text)
ThrownErrors ==
  [statusCode : {NoStatusCode, 400, 401, 403, 404, 500, 503},
   code : KnownDbCodes \cup {"absent", "42501", "ECONNREFUSED"},
   message : {"absent", "raw"},
   validation : {"absent", "raw"}]

\* mapDbError(err)
mapDbError(err) ==
  IF err.code = "23505"
    THEN [status |-> 400, code |-> "REGISTER_NOT_POSSIBLE",
          message |-> "Operation konnte nicht ausgefuehrt werden."]
  ELSE IF err.code \in {"23503", "23514", "23502", "22P02"}
    THEN [status |-> 400, code |-> "VALIDATION_FAILED",
          message |-> "Ungueltige Eingabedaten."]
  ELSE [status |-> 500, code |-> "INTERNAL", message |-> "Internal server error."]

\* apiError(status, code, message, details)
apiError(status, code, message, details) ==
  [status |-> status, code |-> code, message |-> message, details |-> details]

\* the status the handler answers with: statusCode ?? (validation ? 400 : 500)
FallbackStatus(err) ==
  IF err.statusCode # NoStatusCode THEN err.statusCode
  ELSE IF err.validation # "absent" THEN 400 ELSE 500

\* the code derived from the status
StatusCodeName(status) ==
  IF status = 400 THEN "VALIDATION_FAILED"
  ELSE IF status = 401 THEN "UNAUTHORIZED"
  ELSE IF status = 403 THEN "FORBIDDEN"
  ELSE IF status = 404 THEN "NOT_FOUND"
  ELSE "INTERNAL"

\* app.setErrorHandler((err, req, reply) => ...): the body that is sent
errorHandler(err) ==
  IF err.statusCode = NoStatusCode /\ err.code # "absent"
     /\ mapDbError(err).code # "INTERNAL"
    THEN apiError(mapDbError(err).status, mapDbError(err).code,
                  mapDbError(err).message, "absent")
  ELSE LET status == FallbackStatus(err)
       IN apiError(status,
                   IF err.code # "absent" THEN err.code ELSE StatusCodeName(status),
                   IF status = 500 THEN "Internal server error."
                   ELSE IF err.message # "absent" THEN err.message
                   ELSE "Request failed.",
                   err.validation)

\* a hook or a handler throws, or the framework rejects the request
EThrow ==
  /\ eh.pc = "idle"
  /\ ehSeen < MaxErrors
  /\ \E err \in ThrownErrors : eh' = [NoEh EXCEPT !.pc = "thrown", !.err = err]
  /\ UNCHANGED ehSeen

\* the error handler sends its response
EHandle ==
  /\ eh.pc = "thrown"
  /\ eh' = [eh EXCEPT !.pc = "replied", !.body = errorHandler(eh.err)]
  /\ UNCHANGED ehSeen

\* the next error
ENext ==
  /\ eh.pc = "replied"
  /\ eh' = NoEh
  /\ ehSeen' = ehSeen + 1

NextErr ==
  \/ EThrow /\ UNCHANGED notErr
  \/ EHandle /\ UNCHANGED notErr
  \/ ENext /\ UNCHANGED notErr

SpecErr == Init /\ [][NextErr]_vars

\* an unexpected failure: thrown by the database driver, the cache client or
\* the program itself, which set neither statusCode nor validation
Unexpected(err) == err.statusCode = NoStatusCode /\ err.validation = "absent"

\* C32: an unexpected failure is answered either with a generic 400 (known
\* database error codes) or with an opaque 500 (code INTERNAL, fixed message);
\* the body carries nothing of the error: not its message, not its code, no
\* details.
C32_OpaqueFailure ==
  (eh.pc = "replied" /\ Unexpected(eh.err)) =>
    /\ IF eh.err.code \in KnownDbCodes
         THEN /\ eh.body.status = 400
              /\ eh.body.code \in {"REGISTER_NOT_POSSIBLE", "VALIDATION_FAILED"}
         ELSE /\ eh.body.status = 500
              /\ eh.body.code = "INTERNAL"
              /\ eh.body.message = "Internal server error."
    /\ eh.body.message # "raw"
    /\ eh.body.details = "absent"
    /\ eh.body.code # eh.err.code

\* ------------------------------------------------------------------------
\* C33  A refresh token a client has received in a 200 response is committed
\* by the time the client can present it: a rotate call that presents a
\* delivered secret always finds its row (it never answers as for an unknown
\* token because the issuing transaction has not committed yet).
\* ------------------------------------------------------------------------
C33_DeliveredIsCommitted ==
  \A r \in Reqs :
    (IsRefresh(r) /\ req[r].secret # UnknownSecret /\ req[r].outcome # "none")
      => req[r].storedId # 0

\* ------------------------------------------------------------------------
\* C34  Once a logout for session S has completed, no rotate call on a token
\* of family S succeeds any more, whether it arrived after the logout or was
\* under way while the logout ran.
\* ------------------------------------------------------------------------
C34_NoRotateAfterLogout ==
  [][\A r \in Reqs :
       (IsRefresh(r) /\ req[r].outcome # "ok" /\ req'[r].outcome = "ok")
         => ~\E l \in Reqs : /\ req[l].kind = "logout" /\ Done(l)
                             /\ req[l].sid = req'[r].familyId]_vars

\* ------------------------------------------------------------------------
\* C35  While the failure counter of an (email, client ip) pair stands at
\* LOGIN_SOFT_LOCK_MAX_ATTEMPTS, every login attempt for the pair is answered
\* with the generic 401 LOGIN_FAILED at the soft-lock check, with or without
\* an X-Tenant-Id header.
\* ------------------------------------------------------------------------
C35_SoftLockHolds ==
  [][(la.pc = "softlock" /\ SoftLocked(lFailures[la.email]))
       => (la'.pc = "replied" /\ la'.locked /\ la'.resp = LoginFailedResp)]_vars

\* ------------------------------------------------------------------------
\* C36  A counter key that exists has an expiry: whenever no caller stands
\* between its INCR and its EXPIRE, an existing key has a remaining lifetime,
\* also after concurrent increments and after a command of some caller has
\* failed.  (registerLoginFailure issues the same INCR / EXPIRE / TTL
\* sequence on the login-failure key.)
\* ------------------------------------------------------------------------
C36_CounterHasTtl ==
  ((\A c \in RateCallers : rc[c].pc # "expire") /\ rateVal > 0)
    => rateExp # TtlNoExpiry

\* ------------------------------------------------------------------------
\* C37  While one handler is between its acquireShortLock and its
\* releaseShortLock for a (tenant, scope, email), no other handler for the
\* same key is between its own: at most one caller executes the critical
\* section, however long it takes and whenever the lock's TTL runs out.
\* ------------------------------------------------------------------------
C37_OneCriticalSection == Cardinality({c \in Callers : lockPc[c] = "held"}) <= 1

\* ------------------------------------------------------------------------
\* C38  On a route declared { auth: true, tenant: false } (POST
\* /auth/tenants/bootstrap) a request with a valid access token that has no
\* tenant claim and without an X-Tenant-Id header is rejected by no guard: it
\* is never answered by a preHandler hook.
\* ------------------------------------------------------------------------
C38_GlobalTokenReachesHandler ==
  ( /\ g.pc # "idle"
    /\ g.cfg.auth /\ ~g.cfg.tenant /\ g.cfg.db /\ ~g.cfg.permission
    /\ g.header = NoValue
    /\ g.token # NoValue /\ g.token.kind = "access" /\ g.token.tenant = 0 )
    => g.pc # "rejected"

\* ------------------------------------------------------------------------
\* C39  When the row found for a presented refresh token has replaced_by set,
\* the request goes on to revokeRefreshFamily for the row's family, also when
\* the row is revoked or its expiry has passed; REFRESH_REUSE_DETECTED is
\* answered only after revokeRefreshFamily has run, and such a request is
\* never answered with the generic refresh failure.
\* ------------------------------------------------------------------------
C39_ReuseTakesPrecedence ==
  [][\A r \in Reqs :
       /\ ( /\ IsRefresh(r) /\ req[r].pc = "handler"
            /\ req'[r].storedId # 0
            /\ View(r, req'[r].storedId).replaced_by # 0 )
            => ( /\ req'[r].pc = "h_revoke"
                 /\ req'[r].familyId = View(r, req'[r].storedId).family_id )
       /\ (req[r].outcome # "reuse" /\ req'[r].outcome = "reuse")
            => ( /\ req[r].pc = "h_revoke2"
                 /\ \A id \in StillMatching(r, req[r].familyId, req[r].cand) :
                      txWrites'[r][id].revoked )]_vars

\* a request has been sent to revokeRefreshFamily for a presented token that
\* is replaced, revoked and past its expiry
C39_Witness ==
  \E r \in Reqs :
    /\ IsRefresh(r) /\ req[r].pc = "h_revoke"
    /\ View(r, req[r].storedId).replaced_by # 0
    /\ View(r, req[r].storedId).revoked
    /\ isExpired(req[r].storedId, expiredUpTo)

\* ========================================================================
\* The auth preHandler with a cache that may fail (plugins/auth.ts)
\* ========================================================================
\* blacklistHas: (await redis.exists(key)) === 1; the command is rejected
\* (maxRetriesPerRequest: 3) while the cache is unreachable
blacklistHasCache(j) ==
  IF ~auCacheUp THEN "error"
  ELSE IF j \in auBl THEN "1"
  ELSE "0"

\* catch (_err) { ... return sendApiError(reply, 401, "INVALID_TOKEN", ...) }
\* faulty variant: the error is swallowed and the token admitted
AuthCatchFailOpen(r) == [r EXCEPT !.pc = "passed", !.user = r.jti]
AuthCatch(r) == [r EXCEPT !.pc = "rejected", !.reply = 401, !.code = "INVALID_TOKEN"]

\* a request arrives: the route's auth flag and the Authorization header
\* (absent, a bearer token that does not verify, an access token with a jti)
AuArrive ==
  /\ au.pc = "idle"
  /\ auServed < MaxAuthReqs
  /\ \E a \in BOOLEAN, h \in {"absent", "garbage", "access"}, j \in Jtis :
       au' = [NoAu EXCEPT !.pc = "preHandler", !.auth = a, !.authorization = h,
                          !.jti = IF h = "access" THEN j ELSE 0]
  /\ UNCHANGED <<auServed, auBl, auCacheUp>>

\* preHandler up to the blacklist lookup: getRouteNeedsAuth,
\* extractBearerToken, verifyAccessToken
AuVerify ==
  /\ au.pc = "preHandler"
  /\ au' = IF ~au.auth THEN [au EXCEPT !.pc = "passed"]
           ELSE IF au.authorization = "absent"
             THEN [au EXCEPT !.pc = "rejected", !.reply = 401, !.code = "MISSING_TOKEN"]
           ELSE IF au.authorization = "garbage" THEN AuthCatch(au)
           ELSE [au EXCEPT !.pc = "blacklist"]
  /\ UNCHANGED <<auServed, auBl, auCacheUp>>

\* if (await blacklistHas(String(payload.jti))) 401 TOKEN_REVOKED;
\* req.user = payload; a rejected command lands in the catch clause
AuBlacklist ==
  /\ au.pc = "blacklist"
  /\ LET has == blacklistHasCache(au.jti)
     IN au' = IF has = "error" THEN [AuthCatch(au) EXCEPT !.lookup = has]
              ELSE IF has = "1"
                THEN [au EXCEPT !.pc = "rejected", !.reply = 401,
                                !.code = "TOKEN_REVOKED", !.lookup = has]
              ELSE [au EXCEPT !.pc = "passed", !.user = au.jti, !.lookup = has]
  /\ UNCHANGED <<auServed, auBl, auCacheUp>>

\* the hook returned without replying: the request goes on to its handler
AuHandler ==
  /\ au.pc = "passed"
  /\ au' = [au EXCEPT !.pc = "handler"]
  /\ UNCHANGED <<auServed, auBl, auCacheUp>>

\* the response is sent; the next request may arrive
AuFinish ==
  /\ au.pc \in {"handler", "rejected"}
  /\ au' = NoAu
  /\ auServed' = auServed + 1
  /\ UNCHANGED <<auBl, auCacheUp>>

\* POST /logout of another request: blacklistAdd(jti, ttl)
AuBlacklistAdd(j) ==
  /\ auCacheUp
  /\ j \notin auBl
  /\ auBl' = auBl \cup {j}
  /\ UNCHANGED <<au, auServed, auCacheUp>>

\* the cache becomes unreachable, or reachable again
AuCacheFlip ==
  /\ auCacheUp' = ~auCacheUp
  /\ UNCHANGED <<au, auServed, auBl>>

NextAuth ==
  \/ AuArrive /\ UNCHANGED notAuth
  \/ AuVerify /\ UNCHANGED notAuth
  \/ AuBlacklist /\ UNCHANGED notAuth
  \/ AuHandler /\ UNCHANGED notAuth
  \/ AuFinish /\ UNCHANGED notAuth
  \/ \E j \in Jtis : AuBlacklistAdd(j) /\ UNCHANGED notAuth
  \/ AuCacheFlip /\ UNCHANGED notAuth

SpecAuth == Init /\ [][NextAuth]_vars

\* ------------------------------------------------------------------------
\* C40  A request to an authenticated route whose blacklist lookup did not
\* complete is answered 401 by the preHandler, and a request to an
\* authenticated route goes on to its handler only after a lookup that
\* completed and found no blacklist key for the token's jti.
\* ------------------------------------------------------------------------
C40_FailClosed ==
  /\ au.lookup = "error" => (au.pc = "rejected" /\ au.reply = 401 /\ au.user = 0)
  /\ (au.auth /\ au.pc \in {"passed", "handler"})
       => (au.lookup = "0" /\ au.jti # 0 /\ au.user = au.jti)

\* a verified token was presented while the cache was unreachable and the
\* request was answered 401
C40_Witness ==
  /\ au.pc = "rejected"
  /\ au.authorization = "access"
  /\ au.lookup = "error"
  /\ au.reply = 401

====
